---- MODULE Spec2Model ----
(***************************************************************************)
(* Model of the audio-to-text pipeline of aarsla/parsec (src-tauri):       *)
(*   - the batch file transcriber        (file_queue.rs)                   *)
(*   - the recording session             (recorder.rs, commands.rs,        *)
(*                                        escape_monitor.rs, state.rs)     *)
(*   - model acquisition and catalog     (transcriber.rs, model_registry)  *)
(*   - the transcription engine caches   (transcriber.rs)                  *)
(* Each subsystem has its own next-state relation and specification; the   *)
(* variables of the other subsystems are left unchanged by it.             *)
(***************************************************************************)
EXTENDS Integers, Sequences, FiniteSets, Bags, TLC

VARIABLES
    \* ---- batch file transcriber (AppState flags, file_queue.rs statics)
    file_processing,        \* AppState.file_processing (AtomicBool)
    file_cancel_requested,  \* AppState.file_cancel_requested (AtomicBool)
    SPEED_RATIO_USECS,      \* static AtomicU64, microseconds per audio second
    fpc,                    \* position of each transcribe_file call
    fret,                   \* the last return of a transcribe_file call: caller and value
    fdur,                   \* duration_secs of the job (local of the call)
    fres,                   \* result of transcribe_from_samples (local)
    fclock,                 \* seconds since the progress timer was spawned
    tpc,                    \* position of the spawned progress task
    progress_stop,          \* Arc<AtomicBool> shared with the progress task
    file_events,            \* the file-transcription-status events emitted since the last job began
    out_files,              \* indices i such that "<stem> (i).txt" exists (1: "<stem>.txt")
    fjobs,                  \* number of jobs that took the processing guard
    fcancel_job,            \* cancel() was called since the running job took the guard
    fobserved,              \* a job has stored an observed speed ratio
    fcancel_live,           \* cancel() was called since the running job reset the cancel flag
    fcancel_stale,          \* the cancel flag was set when the last job took the guard
    status_event,           \* payload of the last status-changed event
    \* ---- recording session (AppState, recorder.rs and escape_monitor.rs statics)
    status,                 \* AppState.status
    audio_buffer,           \* AppState.audio_buffer: the capture streams whose samples it holds
    ACTIVE_STREAM,          \* static Mutex<Option<SendStream>>: 0 is None
    playing,                \* the capture streams that are playing (built, not yet dropped)
    nstreams,               \* capture streams built so far
    rtasks,                 \* the recording commands in flight (a bag): position and locals
    rret,                   \* what the step just taken returned from a recording command
    MONITOR_ACTIVE,         \* escape_monitor static AtomicBool
    mon_running,            \* escape-monitor threads inside their polling loop
    mon_exiting,            \* escape-monitor threads past the loop, before the final store
    \* ---- model acquisition (transcriber.rs static, the models directory)
    DOWNLOAD_IN_PROGRESS,   \* static AtomicBool
    disk,                   \* what exists under the models directory: <<id>>, <<id, name>>
    partial,                \* the files of disk that were created and not written to the end
    dpc,                    \* position of each ensure_model call
    did,                    \* model_id of the call
    dtodo,                  \* files_to_download still ahead, the current one first
    dreq,                   \* whether the caller's current or last call issued a request
    devs,                   \* the model-download-progress events the call has emitted
    dpeers,                 \* the callers whose current or last call ran while this one's did
    dprog,                  \* the byte counters of the call (locals of do_ensure_model, download_file)
    devent,                 \* the model-download-progress event the step just taken emitted
    dret,                   \* what the step just taken returned from an ensure_model call
    \* ---- model catalog (model_registry.rs)
    qready,                 \* the last readiness a caller was given: the id and the answer
    \* ---- transcription engine (transcriber.rs statics)
    PARAKEET_MODEL,         \* static Mutex<Option<ParakeetTDT>>: the value
    WHISPER_CTX,            \* static Mutex<Option<(String, WhisperContext)>>: the value
    elock,                  \* the call that holds the mutex of each static (0: free)
    live,                   \* the model instances that exist (constructed, not dropped)
    epc,                    \* position of each engine call
    eop,                    \* the operation of the call: preload, transcribe or delete
    eid,                    \* model_id of the call
    enew,                   \* the instance the call constructed and has not yet stored
    eact,                   \* what the step just taken did in the engine
    cfg_windows,            \* the build target: cfg(windows) holds
    \* ---- output directory seen by unique_output_path (file_queue.rs)
    odir,                   \* candidate indices of one stem that exist in output_dir()
    opath,                  \* Option: the path unique_output_path returned
    \* ---- downmix to mono (recorder.rs mix_to_mono, audio_converter.rs decode_audio)
    mdata,                  \* interleaved samples handed to the downmix
    mch,                    \* channel count of the stream / track
    mlive,                  \* Option: what mix_to_mono returned
    mfile,                  \* Option: what decode_audio appended to all_samples
    \* ---- live level metering (recorder.rs capture callback)
    now,                    \* the monotonic clock (Instant::now()), in milliseconds
    amp_last                \* Option: when the last audio-amplitude event was emitted

fileOnly == <<file_processing, file_cancel_requested, SPEED_RATIO_USECS, fpc, fret,
              fdur, fres, fclock, tpc, progress_stop, file_events, out_files, fjobs,
              fcancel_job, fobserved, fcancel_live, fcancel_stale>>

recOnly == <<status, audio_buffer, ACTIVE_STREAM, playing, nstreams, rtasks, rret,
             MONITOR_ACTIVE, mon_running, mon_exiting>>

dlOnly == <<DOWNLOAD_IN_PROGRESS, disk, partial, dpc, did, dtodo, dreq, devs, dpeers,
            dprog, devent, dret>>

catOnly == <<qready>>

engOnly == <<PARAKEET_MODEL, WHISPER_CTX, elock, live, epc, eop, eid, enew, eact,
             cfg_windows>>

outOnly == <<odir, opath>>

mixOnly == <<mdata, mch, mlive, mfile>>

ampOnly == <<now, amp_last>>

pureOnly == <<outOnly, mixOnly>>

\* What the actions of one subsystem leave unchanged.
notFile == <<recOnly, dlOnly, catOnly, engOnly, pureOnly, ampOnly>>
notRec == <<fileOnly, dlOnly, catOnly, engOnly, pureOnly, now>>
notDl == <<fileOnly, status_event, recOnly, catOnly, engOnly, pureOnly, ampOnly>>
notCat == <<fileOnly, status_event, recOnly, dlOnly, engOnly, pureOnly, ampOnly>>
notEng == <<fileOnly, status_event, recOnly, dlOnly, catOnly, cfg_windows, pureOnly, ampOnly>>
notOut == <<fileOnly, status_event, recOnly, dlOnly, catOnly, engOnly, mixOnly, ampOnly>>
notMix == <<fileOnly, status_event, recOnly, dlOnly, catOnly, engOnly, outOnly, ampOnly>>

vars == <<fileOnly, status_event, recOnly, dlOnly, catOnly, engOnly, pureOnly, ampOnly>>

\* Option<T>: None is the empty sequence, Some(x) the sequence of x alone.
None == <<>>
Some(x) == <<x>>

\* ------------------------------------------------------------------ bounds
NumFileProcs == 2       \* concurrent callers of transcribe_file
MaxFileJobs == 2        \* jobs that may take the guard in one behaviour
MaxElapsed == 2         \* seconds a transcription may run
MaxDuration == 2        \* seconds of audio in a decoded file

MaxRecTasks == 2        \* recording commands that may be in flight at once
MaxStreams == 2         \* capture streams that may be built in one behaviour

NumDlProcs == 2         \* concurrent callers of ensure_model
MaxChunks == 3          \* chunks one acquisition may receive
NumEngProcs == 2        \* concurrent callers of the engine (preload, transcribe, delete)
MaxStray == 3           \* output files of the stem beyond the first free candidate
MaxSamples == 4         \* interleaved samples in one downmix input
MaxNow == 50            \* milliseconds the clock runs
TickMs == 25            \* milliseconds between two readings of the clock

FileProcs == 1..NumFileProcs

\* ------------------------------------------------- batch file transcriber
USEC == 1000000
MaxCandidate == 999
PctCap == 95
OverallCap == 99
CompletePct == 100
ThrottleMs == 50

Max(a, b) == IF a >= b THEN a ELSE b
Min(a, b) == IF a <= b THEN a ELSE b

\* FileTranscriptionStatus, reduced to the phase and the percent.
FileStatus(st, pct) == [status |-> st, progress |-> pct]

\* A guard that stores true without looking at the previous value.
SwapTrueBlind(flag) == [old |-> FALSE, new |-> TRUE]

\* A job that goes on without waiting for its progress task.
ProgressTaskDetached(t) == TRUE

\* `let _ = progress_task.await;` returns once the task has left its loop.
ProgressTaskAwaited(t) == t = "off"

\* A job that keeps the cancel flag it finds.
KeepCancel(flag) == flag

\* FILE_CANCEL_REQUESTED.store(false) once the guard is held.
ResetCancel(flag) == FALSE

\* AtomicBool::swap(true): the previous value and the value left in the flag.
SwapTrue(flag) == [old |-> flag, new |-> TRUE]

\* estimated_secs = (duration_secs * speed_ratio).max(1.0), in microseconds.
EstimatedUsecs(dur, ratio) == Max(dur * ratio, USEC)

\* The percent without the cap.
ProgressPctUncapped(elapsed, dur, ratio) ==
    (elapsed * USEC * 100) \div EstimatedUsecs(dur, ratio)

\* pct = ((elapsed / estimated_secs) * 100.0).min(95.0) as u32
ProgressPct(elapsed, dur, ratio) ==
    Min((elapsed * USEC * 100) \div EstimatedUsecs(dur, ratio), PctCap)

\* What `(blended * 1_000_000.0) as u64` may lose against the exact value: the
\* f64 sum old_ratio * 0.3 + new_ratio * 0.7 can fall just below a whole number
\* of microseconds, and the cast truncates. The quotient elapsed / duration
\* times 1_000_000.0 is exact for the durations drawn here.
RoundingLoss(old, elapsed, dur) ==
    IF /\ old # USEC
       /\ (3 * old * dur + 7 * elapsed * USEC) % (10 * dur) = 0
       /\ 3 * old * dur + 7 * elapsed * USEC > 0
    THEN {0, 1}
    ELSE {0}

\* The speed ratio stored after a job, in microseconds: new_ratio when
\* old_ratio == 1.0, otherwise old_ratio * 0.3 + new_ratio * 0.7.
BlendedRatio(old, elapsed, dur, loss) ==
    IF old = USEC
    THEN (elapsed * USEC) \div dur
    ELSE (3 * old * dur + 7 * elapsed * USEC) \div (10 * dur) - loss

\* unique_output_path: the first candidate index that does not exist; 0 stands
\* for the uuid-suffixed fallback.
UuidPath == 0

\* for i in lo..=hi { if !candidate.exists() { return candidate } }, then the
\* uuid-suffixed path. The range is walked in order, as its lower half
\* followed by its upper half.
RECURSIVE ScanCandidates(_, _, _)
ScanCandidates(existing, lo, hi) ==
    IF lo > hi THEN UuidPath
    ELSE IF lo = hi THEN (IF lo \notin existing THEN lo ELSE UuidPath)
    ELSE LET mid == (lo + hi) \div 2
             first == ScanCandidates(existing, lo, mid)
         IN  IF first # UuidPath THEN first
             ELSE ScanCandidates(existing, mid + 1, hi)

\* A scan that never tries "<stem>.txt".
UniqueOutputPathNumbered(existing) ==
    ScanCandidates(existing, 2, MaxCandidate)

UniqueOutputPath(existing) ==
    IF 1 \notin existing THEN 1 ELSE ScanCandidates(existing, 2, MaxCandidate)

FileInit ==
    /\ file_processing = FALSE
    /\ file_cancel_requested = FALSE
    /\ SPEED_RATIO_USECS = USEC
    /\ fpc = [p \in FileProcs |-> "idle"]
    /\ fret = [proc |-> 0, val |-> "none"]
    /\ fdur = [p \in FileProcs |-> 0]
    /\ fres = [p \in FileProcs |-> "none"]
    /\ fclock = [p \in FileProcs |-> 0]
    /\ tpc = [p \in FileProcs |-> "off"]
    /\ progress_stop = [p \in FileProcs |-> FALSE]
    /\ file_events = <<>>
    /\ out_files = {}
    /\ fjobs = 0
    /\ fcancel_job = FALSE
    /\ fobserved = FALSE
    /\ fcancel_live = FALSE
    /\ fcancel_stale = FALSE
    /\ status_event = "idle"

\* file_queue::cancel
FileCancel ==
    /\ file_cancel_requested' = TRUE
    /\ fcancel_job' = (fcancel_job \/ \E p \in FileProcs : fpc[p] # "idle")
    /\ fcancel_live' = (fcancel_live \/ \E p \in FileProcs : fpc[p] \notin {"idle", "start"})
    /\ UNCHANGED <<fobserved, fcancel_stale>>
    /\ UNCHANGED <<file_processing, SPEED_RATIO_USECS, fpc, fret, fdur, fres, fclock,
                   tpc, progress_stop, file_events, out_files, fjobs, status_event>>
    /\ UNCHANGED notFile

\* transcribe_file, entry: the two validations and the swap on the guard.
TranscribeFile(p, exists, media) ==
    /\ fpc[p] = "idle"
    /\ IF ~exists
       THEN /\ fret' = [proc |-> p, val |-> "File not found"]
            /\ UNCHANGED <<file_processing, fpc, fjobs>>
       ELSE IF ~media
       THEN /\ fret' = [proc |-> p, val |-> "Not a supported media file"]
            /\ UNCHANGED <<file_processing, fpc, fjobs>>
       ELSE IF SwapTrue(file_processing).old
       THEN /\ file_processing' = SwapTrue(file_processing).new
            /\ fret' = [proc |-> p, val |-> "Already processing a file"]
            /\ UNCHANGED <<fpc, fjobs>>
       ELSE /\ fjobs < MaxFileJobs
            /\ file_processing' = SwapTrue(file_processing).new
            /\ fpc' = [fpc EXCEPT ![p] = "start"]
            /\ UNCHANGED fret
            /\ fjobs' = fjobs + 1
    /\ fcancel_job' = (fcancel_job /\ fpc'[p] = "idle")
    /\ fcancel_stale' = IF fpc'[p] = "start" THEN file_cancel_requested ELSE fcancel_stale
    /\ UNCHANGED <<fobserved, fcancel_live>>
    /\ UNCHANGED <<file_cancel_requested, SPEED_RATIO_USECS, fdur, fres, fclock, tpc,
                   progress_stop, file_events, out_files, status_event>>
    /\ UNCHANGED notFile

\* transcribe_file, after the guard: reset the cancel flag, emit "converting",
\* hand the decode to a blocking worker.
FileStart(p) ==
    /\ fpc[p] = "start"
    /\ file_cancel_requested' = ResetCancel(file_cancel_requested)
    /\ file_events' = <<FileStatus("converting", 0)>>
    /\ fpc' = [fpc EXCEPT ![p] = "decoding"]
    /\ UNCHANGED <<file_processing, SPEED_RATIO_USECS, fret, fdur, fres, fclock, tpc,
                   progress_stop, out_files, fjobs, status_event>>
    /\ fcancel_live' = FALSE
    /\ UNCHANGED <<fcancel_job, fobserved, fcancel_stale>>
    /\ UNCHANGED notFile

\* The decode returns: an error leaves through `??`; otherwise the first
\* cancellation checkpoint, the estimate, "transcribing" and the progress task.
FileDecoded(p, ok, dur) ==
    /\ fpc[p] = "decoding"
    /\ IF ~ok
       THEN /\ fret' = [proc |-> p, val |-> "Decode error"]
            /\ fpc' = [fpc EXCEPT ![p] = "idle"]
            /\ UNCHANGED <<file_processing, fdur, fclock, tpc, progress_stop,
                           file_events>>
       ELSE IF file_cancel_requested
       THEN /\ file_processing' = FALSE
            /\ file_events' = Append(file_events, FileStatus("idle", 0))
            /\ fret' = [proc |-> p, val |-> "Ok"]
            /\ fpc' = [fpc EXCEPT ![p] = "idle"]
            /\ UNCHANGED <<fdur, fclock, tpc, progress_stop>>
       ELSE /\ fdur' = [fdur EXCEPT ![p] = dur]
            /\ file_events' = Append(file_events, FileStatus("transcribing", 0))
            /\ progress_stop' = [progress_stop EXCEPT ![p] = FALSE]
            /\ tpc' = [tpc EXCEPT ![p] = "sleep"]
            /\ fclock' = [fclock EXCEPT ![p] = 0]
            /\ fpc' = [fpc EXCEPT ![p] = "transcribing"]
            /\ UNCHANGED <<file_processing, fret>>
    /\ UNCHANGED <<file_cancel_requested, SPEED_RATIO_USECS, fres, out_files, fjobs,
                   status_event>>
    /\ fcancel_job' = (fcancel_job /\ fpc'[p] # "idle")
    /\ fcancel_live' = (fcancel_live /\ fpc'[p] # "idle")
    /\ UNCHANGED <<fobserved, fcancel_stale>>
    /\ UNCHANGED notFile

\* Progress task: the one-second sleep ends and the stop flag is read.
TimerWake(p) ==
    /\ tpc[p] = "sleep"
    /\ IF progress_stop[p]
       THEN /\ tpc' = [tpc EXCEPT ![p] = "off"]
            /\ UNCHANGED fclock
       ELSE /\ fclock[p] < MaxElapsed
            /\ fclock' = [fclock EXCEPT ![p] = fclock[p] + 1]
            /\ tpc' = [tpc EXCEPT ![p] = "emit"]
    /\ UNCHANGED <<file_processing, file_cancel_requested, SPEED_RATIO_USECS, fpc, fret,
                   fdur, fres, progress_stop, file_events, out_files, fjobs,
                   status_event>>
    /\ UNCHANGED <<fcancel_job, fobserved, fcancel_live, fcancel_stale>>
    /\ UNCHANGED notFile

\* Progress task: emit the "transcribing" progress event and sleep again.
TimerEmit(p) ==
    /\ tpc[p] = "emit"
    /\ file_events' = Append(file_events,
            FileStatus("transcribing", ProgressPct(fclock[p], fdur[p], SPEED_RATIO_USECS)))
    /\ tpc' = [tpc EXCEPT ![p] = "sleep"]
    /\ UNCHANGED <<file_processing, file_cancel_requested, SPEED_RATIO_USECS, fpc, fret,
                   fdur, fres, fclock, progress_stop, out_files, fjobs, status_event>>
    /\ UNCHANGED <<fcancel_job, fobserved, fcancel_live, fcancel_stale>>
    /\ UNCHANGED notFile

\* transcribe_from_samples returns (text or error); the progress task is told to
\* stop. Once its ensure_model has returned Ok, transcribe_from_samples emits
\* status-changed "transcribing"; an error of ensure_model leaves before it.
FileTranscribed(p, res, ensured) ==
    /\ fpc[p] = "transcribing"
    /\ res = "text" => ensured
    /\ fres' = [fres EXCEPT ![p] = res]
    /\ progress_stop' = [progress_stop EXCEPT ![p] = TRUE]
    /\ fpc' = [fpc EXCEPT ![p] = "join"]
    /\ status_event' = IF ensured THEN "transcribing" ELSE status_event
    /\ UNCHANGED <<file_processing, file_cancel_requested, SPEED_RATIO_USECS, fret, fdur,
                   fclock, tpc, file_events, out_files, fjobs>>
    /\ UNCHANGED <<fcancel_job, fobserved, fcancel_live, fcancel_stale>>
    /\ UNCHANGED notFile

\* The progress task has been awaited: speed ratio, second checkpoint, the
\* result (write and "completed", or "error"), and the final clearing of the flags.
FileFinish(p, wrote, loss) ==
    /\ fpc[p] = "join"
    /\ ProgressTaskAwaited(tpc[p])
    /\ loss \in (IF fdur[p] > 0 THEN RoundingLoss(SPEED_RATIO_USECS, fclock[p], fdur[p])
                 ELSE {0})
    /\ SPEED_RATIO_USECS' =
          IF fdur[p] > 0
          THEN BlendedRatio(SPEED_RATIO_USECS, fclock[p], fdur[p], loss)
          ELSE SPEED_RATIO_USECS
    /\ fpc' = [fpc EXCEPT ![p] = "idle"]
    /\ IF file_cancel_requested
       THEN /\ file_processing' = FALSE
            /\ file_events' = Append(file_events, FileStatus("idle", 0))
            /\ fret' = [proc |-> p, val |-> "Ok"]
            /\ UNCHANGED <<file_cancel_requested, out_files, status_event>>
       ELSE IF fres[p] = "text" /\ ~wrote
       THEN /\ fret' = [proc |-> p, val |-> "Failed to write transcription file"]
            /\ UNCHANGED <<file_processing, file_cancel_requested, file_events,
                           out_files, status_event>>
       ELSE /\ IF fres[p] = "text"
               THEN /\ out_files' = out_files \cup {UniqueOutputPath(out_files)}
                    /\ file_events' = Append(file_events, FileStatus("completed", 100))
               ELSE /\ file_events' = Append(file_events, FileStatus("error", 0))
                    /\ UNCHANGED out_files
            /\ file_processing' = FALSE
            /\ file_cancel_requested' = FALSE
            /\ status_event' = "idle"
            /\ fret' = [proc |-> p, val |-> "Ok"]
    /\ fdur' = [fdur EXCEPT ![p] = 0]
    /\ fres' = [fres EXCEPT ![p] = "none"]
    /\ fclock' = [fclock EXCEPT ![p] = 0]
    /\ progress_stop' = [progress_stop EXCEPT ![p] = FALSE]
    /\ UNCHANGED <<tpc, fjobs>>
    /\ fcancel_job' = FALSE
    /\ fcancel_live' = FALSE
    /\ UNCHANGED fcancel_stale
    /\ fobserved' = (fobserved \/ fdur[p] > 0)
    /\ UNCHANGED notFile

FileNext ==
    \/ FileCancel
    \/ \E p \in FileProcs, exists \in BOOLEAN, media \in BOOLEAN :
          TranscribeFile(p, exists, media)
    \/ \E p \in FileProcs : FileStart(p)
    \/ \E p \in FileProcs, ok \in BOOLEAN, dur \in 0..MaxDuration : FileDecoded(p, ok, dur)
    \/ \E p \in FileProcs : TimerWake(p)
    \/ \E p \in FileProcs : TimerEmit(p)
    \/ \E p \in FileProcs, res \in {"text", "err"}, ensured \in BOOLEAN :
          FileTranscribed(p, res, ensured)
    \/ \E p \in FileProcs, wrote \in BOOLEAN, loss \in {0, 1} : FileFinish(p, wrote, loss)

\* ------------------------------------------------------- recording session
\* Statements of one command that run on one thread without an await are taken
\* in one step where no other thread can tell the difference; a step ends before
\* every statement whose order against another thread's statements matters.
Streams == 1..MaxStreams

\* A command in flight: where it is, and its locals. `stream` is the stream a
\* start has built and not yet stored, `samples` the samples a stop cloned out of
\* the buffer, `cancelled` whether a cancel command returned while the stop was
\* waiting for the engine.
Task(pc, stream, samples, cancelled) ==
    [pc |-> pc, stream |-> stream, samples |-> samples, cancelled |-> cancelled]

Spawn(t) == rtasks (+) SetToBag({t})
Move(t, u) == (rtasks (-) SetToBag({t})) (+) SetToBag({u})
Retire(t) == rtasks (-) SetToBag({t})
InFlightTasks == BagToSet(rtasks)

\* What the step just taken returned from a recording command: the command, the
\* value, for a stop which results it delivered (history entry, paste or
\* clipboard copy, transcription-complete event) and whether it had been
\* cancelled.
RecRet(cmd, val) ==
    [cmd |-> cmd, val |-> val, history |-> FALSE, paste |-> FALSE, complete |-> FALSE,
     complete_text |-> "none", cancelled |-> FALSE]

\* The step taken did not end a command.
NoRet == RecRet("none", "none")

\* A start that is never rejected.
StartRejectedNever(st) == FALSE

\* recorder::start_recording, first statement: the status check.
StartRejected(st) == st = "recording"

\* A stop that never finds the buffer empty.
NoAudioNever(samples) == FALSE

\* recorder::stop_recording: samples.is_empty()
NoAudio(samples) == samples = {}

\* pause_and_drop_stream(ACTIVE_STREAM.lock().take()), and the drop of the
\* value an assignment to ACTIVE_STREAM replaces: the streams left playing.
TakeAndDrop(active, pl) == pl \ {active}

\* The outcomes of the inference and of what follows it in stop_recording: the
\* engine's result, the saveHistory setting, and whether the paste or clipboard
\* copy succeeded.
InferOutcomes ==
    {[res |-> "err", save_history |-> FALSE, pasted |-> FALSE],
     [res |-> "empty", save_history |-> FALSE, pasted |-> FALSE]}
    \cup [res : {"text"}, save_history : BOOLEAN, pasted : BOOLEAN]

\* A text that always counts as non-empty.
NonEmptyAlways(res) == TRUE

\* commands::stop_recording: !text.is_empty()
NonEmpty(res) == res = "text"

RecInit ==
    /\ status = "idle"
    /\ now = 0
    /\ amp_last = None
    /\ audio_buffer = {}
    /\ ACTIVE_STREAM = 0
    /\ playing = {}
    /\ nstreams = 0
    /\ rtasks = EmptyBag
    /\ rret = NoRet
    /\ MONITOR_ACTIVE = FALSE
    /\ mon_running = 0
    /\ mon_exiting = 0

\* The capture callback of a playing stream: convert_samples, extend the buffer
\* and emit audio-amplitude (the samples of a callback are not empty).
AudioCallback(s) ==
    /\ s \in playing
    /\ audio_buffer' = audio_buffer \cup {s}
    /\ rret' = NoRet
    /\ amp_last' = Some(now)
    /\ UNCHANGED <<status, ACTIVE_STREAM, playing, nstreams, rtasks, MONITOR_ACTIVE,
                   mon_running, mon_exiting, status_event>>
    /\ UNCHANGED notRec

\* commands::start_recording -> recorder::start_recording: the status check, the
\* resolution of the input device, and the clearing of the buffer.
RecStart(device) ==
    /\ BagCardinality(rtasks) < MaxRecTasks
    /\ IF StartRejected(status)
       THEN /\ rret' = RecRet("start", "Already recording")
            /\ UNCHANGED <<rtasks, audio_buffer>>
       ELSE IF ~device
       THEN /\ rret' = RecRet("start", "No input device available")
            /\ UNCHANGED <<rtasks, audio_buffer>>
       ELSE /\ nstreams < MaxStreams
            /\ audio_buffer' = {}
            /\ rtasks' = Spawn(Task("start_build", 0, {}, FALSE))
            /\ rret' = NoRet
    /\ UNCHANGED <<status, ACTIVE_STREAM, playing, nstreams, MONITOR_ACTIVE,
                   mon_running, mon_exiting, status_event>>
    /\ UNCHANGED <<amp_last, notRec>>

\* start_recording: build_input_stream_robust(..)? and stream.play()?
RecStartBuild(t, built) ==
    /\ t \in InFlightTasks
    /\ t.pc = "start_build"
    /\ IF ~built
       THEN /\ rret' = RecRet("start", "Stream error")
            /\ rtasks' = Retire(t)
            /\ UNCHANGED <<playing, nstreams>>
       ELSE /\ nstreams' = nstreams + 1
            /\ playing' = playing \cup {nstreams + 1}
            /\ rtasks' = Move(t, Task("start_store", nstreams + 1, {}, FALSE))
            /\ rret' = NoRet
    /\ UNCHANGED <<status, audio_buffer, ACTIVE_STREAM, MONITOR_ACTIVE, mon_running,
                   mon_exiting, status_event>>
    /\ UNCHANGED <<amp_last, notRec>>

\* start_recording: *ACTIVE_STREAM.lock() = Some(SendStream(stream)) (the value
\* replaced is dropped), set_status(Recording), emit status-changed; then the
\* command calls escape_monitor::start (swap on MONITOR_ACTIVE, spawn when it
\* was false).
RecStartStore(t) ==
    /\ t \in InFlightTasks
    /\ t.pc = "start_store"
    /\ ACTIVE_STREAM' = t.stream
    /\ playing' = TakeAndDrop(ACTIVE_STREAM, playing)
    /\ status' = "recording"
    /\ status_event' = "recording"
    /\ MONITOR_ACTIVE' = TRUE
    /\ mon_running' = IF MONITOR_ACTIVE THEN mon_running ELSE mon_running + 1
    /\ rret' = RecRet("start", "Ok")
    /\ rtasks' = Retire(t)
    /\ UNCHANGED <<audio_buffer, nstreams, mon_exiting>>
    /\ UNCHANGED <<amp_last, notRec>>

\* commands::stop_recording: escape_monitor::stop(), then recorder::stop_recording
\* takes and drops the active stream.
RecStop ==
    /\ BagCardinality(rtasks) < MaxRecTasks
    /\ MONITOR_ACTIVE' = FALSE
    /\ playing' = TakeAndDrop(ACTIVE_STREAM, playing)
    /\ ACTIVE_STREAM' = 0
    /\ rtasks' = Spawn(Task("stop_clone", 0, {}, FALSE))
    /\ rret' = NoRet
    /\ UNCHANGED <<status, audio_buffer, nstreams, mon_running, mon_exiting,
                   status_event>>
    /\ UNCHANGED <<amp_last, notRec>>

\* recorder::stop_recording: clone the buffer; empty: set_status(Idle) and bail.
\* Otherwise the command goes on: set_status(Transcribing), emit status-changed,
\* and transcribe_from_samples(..).await.
RecStopClone(t) ==
    /\ t \in InFlightTasks
    /\ t.pc = "stop_clone"
    /\ IF NoAudio(audio_buffer)
       THEN /\ status' = "idle"
            /\ rret' = RecRet("stop", "No audio recorded")
            /\ rtasks' = Retire(t)
            /\ UNCHANGED status_event
       ELSE /\ status' = "transcribing"
            /\ status_event' = "transcribing"
            /\ rtasks' = Move(t, Task("stop_ensure", 0, audio_buffer, FALSE))
            /\ rret' = NoRet
    /\ UNCHANGED <<audio_buffer, ACTIVE_STREAM, playing, nstreams, MONITOR_ACTIVE,
                   mon_running, mon_exiting>>
    /\ UNCHANGED <<amp_last, notRec>>

\* transcribe_from_samples: ensure_model(..).await? and the status-changed
\* "transcribing" event that follows it.
RecStopEnsured(t, ensured) ==
    /\ t \in InFlightTasks
    /\ t.pc = "stop_ensure"
    /\ IF ~ensured
       THEN /\ rret' = [RecRet("stop", "Engine error") EXCEPT !.cancelled = t.cancelled]
            /\ rtasks' = Retire(t)
            /\ UNCHANGED status_event
       ELSE /\ status_event' = "transcribing"
            /\ rtasks' = Move(t, [t EXCEPT !.pc = "stop_infer"])
            /\ rret' = NoRet
    /\ UNCHANGED <<status, audio_buffer, ACTIVE_STREAM, playing, nstreams,
                   MONITOR_ACTIVE, mon_running, mon_exiting>>
    /\ UNCHANGED <<amp_last, notRec>>

\* The inference returns, and commands::stop_recording runs to its end: an error
\* leaves through `?`; a non-empty text goes to the history (when saveHistory)
\* and is pasted or copied (an error leaves through `?`); then
\* transcription-complete, set_status(Idle) and status-changed.
RecStopInferred(t, o) ==
    /\ t \in InFlightTasks
    /\ t.pc = "stop_infer"
    /\ rtasks' = Retire(t)
    /\ IF o.res = "err"
       THEN /\ rret' = [RecRet("stop", "Engine error") EXCEPT !.cancelled = t.cancelled]
            /\ UNCHANGED <<status, status_event>>
       ELSE IF NonEmpty(o.res) /\ ~o.pasted
       THEN /\ rret' = [RecRet("stop", "Paste error") EXCEPT
                           !.history = (NonEmpty(o.res) /\ o.save_history),
                           !.cancelled = t.cancelled]
            /\ UNCHANGED <<status, status_event>>
       ELSE /\ rret' = [RecRet("stop", "Ok") EXCEPT
                           !.history = (NonEmpty(o.res) /\ o.save_history),
                           !.paste = NonEmpty(o.res),
                           !.complete = TRUE,
                           !.complete_text = o.res,
                           !.cancelled = t.cancelled]
            /\ status' = "idle"
            /\ status_event' = "idle"
    /\ UNCHANGED <<audio_buffer, ACTIVE_STREAM, playing, nstreams, MONITOR_ACTIVE,
                   mon_running, mon_exiting>>
    /\ UNCHANGED <<amp_last, notRec>>

\* commands::cancel_recording: escape_monitor::stop(), then
\* recorder::cancel_recording takes and drops the active stream.
RecCancel ==
    /\ BagCardinality(rtasks) < MaxRecTasks
    /\ MONITOR_ACTIVE' = FALSE
    /\ playing' = TakeAndDrop(ACTIVE_STREAM, playing)
    /\ ACTIVE_STREAM' = 0
    /\ rtasks' = Spawn(Task("cancel_clear", 0, {}, FALSE))
    /\ rret' = NoRet
    /\ UNCHANGED <<status, audio_buffer, nstreams, mon_running, mon_exiting,
                   status_event>>
    /\ UNCHANGED <<amp_last, notRec>>

\* The stops that wait for the engine are marked: a cancel command has returned.
MarkCancelled(bag) ==
    LET waiting(r) == r.pc \in {"stop_ensure", "stop_infer"}
        mark(r) == IF waiting(r) THEN [r EXCEPT !.cancelled = TRUE] ELSE r
        S == BagToSet(bag)
    IN  [u \in {mark(r) : r \in S} |->
            (IF u \in S THEN bag[u] ELSE 0)
            + (IF waiting(u) /\ [u EXCEPT !.cancelled = FALSE] \in S
               THEN bag[[u EXCEPT !.cancelled = FALSE]] ELSE 0)]

\* recorder::cancel_recording: clear the buffer, set_status(Idle); the command
\* emits status-changed and returns.
RecCancelClear(t) ==
    /\ t \in InFlightTasks
    /\ t.pc = "cancel_clear"
    /\ audio_buffer' = {}
    /\ status' = "idle"
    /\ status_event' = "idle"
    /\ rtasks' = MarkCancelled(Retire(t))
    /\ rret' = RecRet("cancel", "Ok")
    /\ UNCHANGED <<ACTIVE_STREAM, playing, nstreams, MONITOR_ACTIVE, mon_running,
                   mon_exiting>>
    /\ UNCHANGED <<amp_last, notRec>>

\* escape_monitor thread: the loop ends (flag cleared, status not Recording, or
\* Escape pressed).
MonitorBreak(escape) ==
    /\ mon_running > 0
    /\ ~MONITOR_ACTIVE \/ status # "recording" \/ escape
    /\ mon_running' = mon_running - 1
    /\ mon_exiting' = mon_exiting + 1
    /\ rret' = NoRet
    /\ UNCHANGED <<status, audio_buffer, ACTIVE_STREAM, playing, nstreams, rtasks,
                   MONITOR_ACTIVE, status_event>>
    /\ UNCHANGED <<amp_last, notRec>>

\* escape_monitor thread: MONITOR_ACTIVE.store(false) after the loop.
MonitorExit ==
    /\ mon_exiting > 0
    /\ MONITOR_ACTIVE' = FALSE
    /\ mon_exiting' = mon_exiting - 1
    /\ rret' = NoRet
    /\ UNCHANGED <<status, audio_buffer, ACTIVE_STREAM, playing, nstreams, rtasks,
                   mon_running, status_event>>
    /\ UNCHANGED <<amp_last, notRec>>

\* Time passes.
Tick ==
    /\ now + TickMs <= MaxNow
    /\ now' = now + TickMs
    /\ UNCHANGED <<fileOnly, status_event, recOnly, dlOnly, catOnly, engOnly, pureOnly,
                   amp_last>>

RecNext ==
    \/ \E s \in Streams : AudioCallback(s)
    \/ \E device \in BOOLEAN : RecStart(device)
    \/ \E t \in InFlightTasks, built \in BOOLEAN : RecStartBuild(t, built)
    \/ \E t \in InFlightTasks : RecStartStore(t)
    \/ RecStop
    \/ \E t \in InFlightTasks : RecStopClone(t)
    \/ \E t \in InFlightTasks, ensured \in BOOLEAN : RecStopEnsured(t, ensured)
    \/ \E t \in InFlightTasks, o \in InferOutcomes : RecStopInferred(t, o)
    \/ RecCancel
    \/ \E t \in InFlightTasks : RecCancelClear(t)
    \/ \E escape \in BOOLEAN : MonitorBreak(escape)
    \/ MonitorExit

\* Every command in flight is suspended at an await (the engine call of a stop).
AllAwaiting == \A t \in InFlightTasks : t.pc \in {"stop_ensure", "stop_infer"}

\* The recording session when the commands do not overlap except at an await:
\* a command begins only while every other command is suspended at its await,
\* so the synchronous statements of a command run without interruption by
\* another command. The capture callback and the escape monitor run on their
\* own threads.
RecNextSeq ==
    \/ \E s \in Streams : AudioCallback(s)
    \/ \E device \in BOOLEAN : AllAwaiting /\ RecStart(device)
    \/ \E t \in InFlightTasks, built \in BOOLEAN : RecStartBuild(t, built)
    \/ \E t \in InFlightTasks : RecStartStore(t)
    \/ AllAwaiting /\ RecStop
    \/ \E t \in InFlightTasks : RecStopClone(t)
    \/ \E t \in InFlightTasks, ensured \in BOOLEAN :
          AllAwaiting /\ RecStopEnsured(t, ensured)
    \/ \E t \in InFlightTasks, o \in InferOutcomes :
          AllAwaiting /\ RecStopInferred(t, o)
    \/ AllAwaiting /\ RecCancel
    \/ \E t \in InFlightTasks : RecCancelClear(t)
    \/ \E escape \in BOOLEAN : MonitorBreak(escape)
    \/ MonitorExit

\* --------------------------------------------------------- model acquisition
DlProcs == 1..NumDlProcs


\* model_registry::ModelFile. The url is kept as the sequence of its '/'
\* separated parts after the host.
ModelFile(url, rename_to) == [url |-> url, rename_to |-> rename_to]

\* model_registry::MODELS (id, engine, approx_bytes and files of each definition).
MODELS ==
    << [id |-> "parakeet-tdt-0.6b-v3", engine |-> "parakeet", approx_bytes |-> 680000000,
        files |->
          << ModelFile(<<"istupakov", "parakeet-tdt-0.6b-v3-onnx", "resolve", "main",
                         "encoder-model.int8.onnx">>, Some("encoder-model.onnx")),
             ModelFile(<<"istupakov", "parakeet-tdt-0.6b-v3-onnx", "resolve", "main",
                         "decoder_joint-model.int8.onnx">>,
                       Some("decoder_joint-model.onnx")),
             ModelFile(<<"istupakov", "parakeet-tdt-0.6b-v3-onnx", "resolve", "main",
                         "vocab.txt">>, None),
             ModelFile(<<"istupakov", "parakeet-tdt-0.6b-v3-onnx", "resolve", "main",
                         "config.json">>, None),
             ModelFile(<<"istupakov", "parakeet-tdt-0.6b-v3-onnx", "resolve", "main",
                         "nemo128.onnx">>, None) >>],
       [id |-> "whisper-large-v3-turbo-q5_0", engine |-> "whisper",
        approx_bytes |-> 574000000,
        files |-> << ModelFile(<<"ggerganov", "whisper.cpp", "resolve", "main",
                                 "ggml-large-v3-turbo-q5_0.bin">>, Some("model.bin")) >>],
       [id |-> "whisper-large-v3-turbo-q8_0", engine |-> "whisper",
        approx_bytes |-> 874000000,
        files |-> << ModelFile(<<"ggerganov", "whisper.cpp", "resolve", "main",
                                 "ggml-large-v3-turbo-q8_0.bin">>, Some("model.bin")) >>],
       [id |-> "whisper-medium-q5_0", engine |-> "whisper",
        approx_bytes |-> 539000000,
        files |-> << ModelFile(<<"ggerganov", "whisper.cpp", "resolve", "main",
                                 "ggml-medium-q5_0.bin">>, Some("model.bin")) >>],
       [id |-> "whisper-small-q5_1", engine |-> "whisper",
        approx_bytes |-> 190000000,
        files |-> << ModelFile(<<"ggerganov", "whisper.cpp", "resolve", "main",
                                 "ggml-small-q5_1.bin">>, Some("model.bin")) >> ] >>

\* The ids the callers ask for: two of the catalog and one that is not in it.
ModelIds == {"parakeet-tdt-0.6b-v3", "whisper-small-q5_1", "no-such-model"}

\* model_registry::find_model: MODELS.iter().find(|m| m.id == id)
find_model(id) ==
    LET hits == SelectSeq(MODELS, LAMBDA m : m.id = id)
    IN  IF hits = <<>> THEN None ELSE Some(Head(hits))

\* file.url.rsplit('/').next(): the last part of the url.
UrlFilename(file) == file.url[Len(file.url)]

\* A destination name that ignores rename_to.
file_dest_name_from_url(file) == UrlFilename(file)

\* model_registry::file_dest_name
file_dest_name(file) ==
    IF file.rename_to # None THEN Head(file.rename_to) ELSE UrlFilename(file)

\* model_registry::model_dir(id).join(name)
Path(id, name) == <<id, name>>

\* model_registry::model_dir(id)
Dir(id) == <<id>>

\* model_registry::model_ready, on the disk contents dsk.
model_ready(id, dsk) ==
    LET def == find_model(id)
    IN  IF def = None
        THEN FALSE
        ELSE \A i \in 1..Len(Head(def).files) :
                 Path(id, file_dest_name(Head(def).files[i])) \in dsk

\* do_ensure_model: the files whose destination name is not in the directory.
FilesToDownload(def, dsk) ==
    SelectSeq(def.files, LAMBDA file : Path(def.id, file_dest_name(file)) \notin dsk)

\* A compare-and-swap that succeeds whatever the flag holds.
CompareExchangeBlind(flag, current, new) == [ok |-> TRUE, new |-> new]

\* AtomicBool::compare_exchange(current, new): whether it succeeded and the
\* value the flag holds afterwards.
CompareExchange(flag, current, new) ==
    [ok |-> flag = current, new |-> IF flag = current THEN new ELSE flag]

\* The sizes of the chunks a response body arrives in.
ChunkSizes == {1000000, 340000000}

\* download_file: ((bytes as f64 / approx_total as f64) * 100.0).min(99.0) as u32.
\* Every approx_bytes of MODELS is a multiple of 100, so the quotient by
\* approx_total / 100 is the same number; the cast truncates it.
OverallPct(bytes, approx_total) == Min(OverallCap, bytes \div (approx_total \div 100))

\* A last_overall_pct that starts every file at 0.
InitialOverallPctZero(cumulative_offset, approx_total) == 0

\* download_file: let mut last_overall_pct =
\*     ((cumulative_offset as f64 / approx_total as f64) * 100.0).min(99.0) as u32
InitialOverallPct(cumulative_offset, approx_total) ==
    OverallPct(cumulative_offset, approx_total)

\* An overall count that forgets the files downloaded before the current one.
OverallDownloadedThisFile(cumulative_offset, downloaded) == downloaded

\* download_file: let overall_downloaded = cumulative_offset + downloaded
OverallDownloaded(cumulative_offset, downloaded) == cumulative_offset + downloaded

\* The byte counters of a call: cumulative_offset of do_ensure_model; downloaded
\* and last_overall_pct of download_file; the chunks received so far; and
\* `reported`, the overall percentage of the last event the acquisition
\* emitted (-1: none yet).
Prog(cumulative_offset, downloaded, last_overall_pct, chunks, reported) ==
    [cumulative_offset |-> cumulative_offset, downloaded |-> downloaded,
     last_overall_pct |-> last_overall_pct, chunks |-> chunks, reported |-> reported]

NoProg == Prog(0, 0, 0, 0, -1)

\* A model-download-progress event: the emitting call, its modelId, the "file"
\* field ("starting", "complete", or "chunk" for a file label) and
\* overall_progress.
Event(p, id, kind, overall) == [proc |-> p, id |-> id, kind |-> kind, overall |-> overall]

NoEvent == Event(0, "", "none", 0)

\* What the step just taken returned from an ensure_model call: the caller, the
\* id, the return statement taken ("ready": the first readiness check, "busy":
\* the failed compare-and-swap, "done": after do_ensure_model), the value,
\* whether the call issued a request and the events it emitted.
DlRet(p, id, via, val, requested, events) ==
    [proc |-> p, id |-> id, via |-> via, val |-> val, requested |-> requested,
     events |-> events]

NoDlRet == DlRet(0, "", "none", "none", FALSE, {})

DlInit ==
    /\ DOWNLOAD_IN_PROGRESS = FALSE
    /\ disk = {}
    /\ partial = {}
    /\ dpc = [p \in DlProcs |-> "idle"]
    /\ did = [p \in DlProcs |-> ""]
    /\ dtodo = [p \in DlProcs |-> <<>>]
    /\ dreq = [p \in DlProcs |-> FALSE]
    /\ devs = [p \in DlProcs |-> {}]
    /\ dpeers = [p \in DlProcs |-> {}]
    /\ dprog = [p \in DlProcs |-> NoProg]
    /\ devent = NoEvent
    /\ dret = NoDlRet

\* The calls in flight.
Ensuring == {p \in DlProcs : dpc[p] # "idle"}

\* An entry check that never finds the model ready.
AlreadyReadyNever(id, dsk) == FALSE

\* ensure_model: if model_registry::model_ready(model_id) { return Ok(()) }
AlreadyReady(id, dsk) == model_ready(id, dsk)

\* ensure_model, entry: the first readiness check. The check reads the directory
\* in one step: destination names only ever appear in it.
EnsureModel(p, id) ==
    /\ dpc[p] = "idle"
    /\ dreq' = [dreq EXCEPT ![p] = FALSE]
    /\ IF AlreadyReady(id, disk)
       THEN /\ dret' = DlRet(p, id, "ready", "Ok", FALSE, {})
            /\ dpeers' = [q \in DlProcs |->
                            IF q = p THEN {} ELSE dpeers[q] \ {p}]
            /\ UNCHANGED <<dpc, did>>
       ELSE /\ dpc' = [dpc EXCEPT ![p] = "cas"]
            /\ did' = [did EXCEPT ![p] = id]
            /\ dpeers' = [q \in DlProcs |->
                            IF q = p THEN Ensuring
                            ELSE IF q \in Ensuring THEN dpeers[q] \cup {p}
                            ELSE dpeers[q] \ {p}]
            /\ dret' = NoDlRet
    /\ devent' = NoEvent
    /\ UNCHANGED <<DOWNLOAD_IN_PROGRESS, disk, partial, dtodo, devs, dprog>>
    /\ UNCHANGED notDl

\* The locals of a call, dropped when it returns.
DlReturn(p) ==
    /\ dpc' = [dpc EXCEPT ![p] = "idle"]
    /\ did' = [did EXCEPT ![p] = ""]
    /\ dtodo' = [dtodo EXCEPT ![p] = <<>>]
    /\ devs' = [devs EXCEPT ![p] = {}]
    /\ dprog' = [dprog EXCEPT ![p] = NoProg]

\* ensure_model: DOWNLOAD_IN_PROGRESS.compare_exchange(false, true); on failure
\* return Ok(()).
EnsureCas(p) ==
    /\ dpc[p] = "cas"
    /\ LET r == CompareExchange(DOWNLOAD_IN_PROGRESS, FALSE, TRUE)
       IN  /\ DOWNLOAD_IN_PROGRESS' = r.new
           /\ IF r.ok
              THEN /\ dpc' = [dpc EXCEPT ![p] = "find"]
                   /\ dret' = NoDlRet
                   /\ UNCHANGED <<did, dtodo, devs, dprog>>
              ELSE /\ dret' = DlRet(p, did[p], "busy", "Ok", dreq[p], devs[p])
                   /\ DlReturn(p)
    /\ devent' = NoEvent
    /\ UNCHANGED <<disk, partial, dreq, dpeers>>
    /\ UNCHANGED notDl

\* An ensure_model that leaves on an error of do_ensure_model before the store.
EnsureReleaseOnSuccess(p, val, requested, events) ==
    /\ DOWNLOAD_IN_PROGRESS' = (val # "Ok")
    /\ dret' = DlRet(p, did[p], "done", val, requested, events)
    /\ DlReturn(p)

\* ensure_model, after do_ensure_model(..).await: DOWNLOAD_IN_PROGRESS.store(false)
\* and return the result.
EnsureRelease(p, val, requested, events) ==
    /\ DOWNLOAD_IN_PROGRESS' = FALSE
    /\ dret' = DlRet(p, did[p], "done", val, requested, events)
    /\ DlReturn(p)

\* do_ensure_model up to the first request: find_model, the second readiness
\* check, create_dir_all, the files to download, and the "starting" event.
DoEnsureModel(p, dir_created) ==
    /\ dpc[p] = "find"
    /\ LET def == find_model(did[p])
       IN  IF def = None
           THEN /\ EnsureRelease(p, "Unknown model", dreq[p], devs[p])
                /\ devent' = NoEvent
           ELSE IF model_ready(did[p], disk)
           THEN /\ EnsureRelease(p, "Ok", dreq[p], devs[p])
                /\ devent' = NoEvent
           ELSE IF ~dir_created
           THEN /\ EnsureRelease(p, "Io error", dreq[p], devs[p])
                /\ devent' = NoEvent
           ELSE /\ dtodo' = [dtodo EXCEPT ![p] = FilesToDownload(Head(def), disk)]
                /\ devs' = [devs EXCEPT ![p] = @ \cup {"starting"}]
                /\ devent' = Event(p, did[p], "starting", 0)
                /\ dprog' = [dprog EXCEPT ![p] = Prog(0, 0, 0, 0, 0)]
                /\ dpc' = [dpc EXCEPT ![p] = "request"]
                /\ dret' = NoDlRet
                /\ UNCHANGED <<DOWNLOAD_IN_PROGRESS, did>>
    /\ disk' = IF find_model(did[p]) # None /\ ~model_ready(did[p], disk) /\ dir_created
               THEN disk \cup {Dir(did[p])}
               ELSE disk
    /\ UNCHANGED <<partial, dreq, dpeers>>
    /\ UNCHANGED notDl

\* do_ensure_model after the loop over files_to_download: the "complete" event
\* and Ok(()), then the release in ensure_model.
EnsureComplete(p) ==
    /\ devent' = Event(p, did[p], "complete", CompletePct)
    /\ EnsureRelease(p, "Ok", dreq[p], devs[p] \cup {"complete"})

\* download_file: client.get(url).send().await?.error_for_status()?, then
\* File::create(dest).await? at the name the url ends with (an error when the
\* model directory is gone), downloaded = 0 and last_overall_pct from
\* cumulative_offset.
DownloadRequest(p, ok) ==
    /\ dpc[p] = "request"
    /\ dtodo[p] # <<>>
    /\ dreq' = [dreq EXCEPT ![p] = TRUE]
    /\ IF ~ok \/ Dir(did[p]) \notin disk
       THEN /\ EnsureRelease(p, "Failed to download", TRUE, devs[p])
            /\ UNCHANGED <<disk, partial>>
       ELSE /\ disk' = disk \cup {Path(did[p], UrlFilename(Head(dtodo[p])))}
            /\ partial' = partial \cup {Path(did[p], UrlFilename(Head(dtodo[p])))}
            /\ dprog' = [dprog EXCEPT
                           ![p].downloaded = 0,
                           ![p].last_overall_pct =
                               InitialOverallPct(dprog[p].cumulative_offset,
                                                 Head(find_model(did[p])).approx_bytes)]
            /\ dpc' = [dpc EXCEPT ![p] = "stream"]
            /\ dret' = NoDlRet
            /\ UNCHANGED <<DOWNLOAD_IN_PROGRESS, did, dtodo, devs>>
    /\ devent' = NoEvent
    /\ UNCHANGED dpeers
    /\ UNCHANGED notDl

\* download_file, one turn of the chunk loop: the chunk is an error (chunk?), or
\* it is written, downloaded grows by its length, and a progress event is
\* emitted when the overall percentage differs from last_overall_pct.
DownloadChunk(p, size, ok) ==
    /\ dpc[p] = "stream"
    /\ IF ~ok
       THEN /\ EnsureRelease(p, "Failed to download", dreq[p], devs[p])
            /\ devent' = NoEvent
       ELSE /\ dprog[p].chunks < MaxChunks
            /\ LET downloaded == dprog[p].downloaded + size
                   overall_downloaded ==
                       OverallDownloaded(dprog[p].cumulative_offset, downloaded)
                   overall_progress ==
                       OverallPct(overall_downloaded,
                                  Head(find_model(did[p])).approx_bytes)
               IN  IF overall_progress # dprog[p].last_overall_pct
                   THEN /\ dprog' = [dprog EXCEPT
                                       ![p].downloaded = downloaded,
                                       ![p].chunks = @ + 1,
                                       ![p].last_overall_pct = overall_progress,
                                       ![p].reported = overall_progress]
                        /\ devent' = Event(p, did[p], "chunk", overall_progress)
                        /\ devs' = [devs EXCEPT ![p] = @ \cup {"chunk"}]
                   ELSE /\ dprog' = [dprog EXCEPT
                                       ![p].downloaded = downloaded,
                                       ![p].chunks = @ + 1]
                        /\ devent' = NoEvent
                        /\ UNCHANGED devs
            /\ dret' = NoDlRet
            /\ UNCHANGED <<DOWNLOAD_IN_PROGRESS, dpc, did, dtodo>>
    /\ UNCHANGED <<disk, partial, dreq, dpeers>>
    /\ UNCHANGED notDl

\* download_file: the stream ends and the file is flushed; do_ensure_model adds
\* the bytes to cumulative_offset, renames the file when the definition asks
\* for it and the final name is free (an error when the downloaded file is no
\* longer in the directory), and goes on to the next file or, after the last
\* one, emits "complete".
DownloadEnd(p, renamed) ==
    /\ dpc[p] = "stream"
    /\ LET file == Head(dtodo[p])
           download_dest == Path(did[p], UrlFilename(file))
           final_path == Path(did[p], file_dest_name(file))
           rename == /\ file.rename_to # None
                     /\ download_dest # final_path
                     /\ final_path \notin disk
           cumulative_offset == dprog[p].cumulative_offset + dprog[p].downloaded
       IN  /\ partial' = partial \ {download_dest}
           /\ IF rename /\ (~renamed \/ download_dest \notin disk)
              THEN /\ EnsureRelease(p, "Io error", dreq[p], devs[p])
                   /\ devent' = NoEvent
                   /\ UNCHANGED disk
              ELSE /\ disk' = IF rename
                              THEN (disk \ {download_dest}) \cup {final_path}
                              ELSE disk
                   /\ IF Tail(dtodo[p]) = <<>>
                      THEN EnsureComplete(p)
                      ELSE /\ dtodo' = [dtodo EXCEPT ![p] = Tail(@)]
                           /\ dprog' = [dprog EXCEPT
                                          ![p].cumulative_offset = cumulative_offset]
                           /\ dpc' = [dpc EXCEPT ![p] = "request"]
                           /\ dret' = NoDlRet
                           /\ devent' = NoEvent
                           /\ UNCHANGED <<DOWNLOAD_IN_PROGRESS, did, devs>>
    /\ UNCHANGED <<dreq, dpeers>>
    /\ UNCHANGED notDl

\* A step of the ensure_model call of caller p.
DlStep(p) ==
    \/ \E id \in ModelIds : EnsureModel(p, id)
    \/ EnsureCas(p)
    \/ \E dir_created \in BOOLEAN : DoEnsureModel(p, dir_created)
    \/ \E ok \in BOOLEAN : DownloadRequest(p, ok)
    \/ \E size \in ChunkSizes, ok \in BOOLEAN : DownloadChunk(p, size, ok)
    \/ \E renamed \in BOOLEAN : DownloadEnd(p, renamed)

DlNext == \E p \in DlProcs : DlStep(p)

\* ------------------------------------------------------------- model catalog
\* The names a models directory may hold in the catalog runs: the destination
\* names of two catalog models, the names their downloads arrive under, and a
\* file in the directory of an id that is not in the catalog.
CatalogPaths ==
    {Path("parakeet-tdt-0.6b-v3", n) :
        n \in {"encoder-model.onnx", "encoder-model.int8.onnx", "decoder_joint-model.onnx",
               "decoder_joint-model.int8.onnx", "vocab.txt", "config.json",
               "nemo128.onnx"}}
    \cup {Path("whisper-small-q5_1", n) : n \in {"model.bin", "ggml-small-q5_1.bin"}}
    \cup {Path("no-such-model", "model.bin")}

CatInit == qready = [id |-> "", ready |-> FALSE]

\* The models directory as an earlier run of the program, or the user, left it.
CatDiskInit ==
    /\ DOWNLOAD_IN_PROGRESS = FALSE
    /\ \E S \in SUBSET CatalogPaths : disk = S \cup {Dir(path[1]) : path \in S}
    /\ partial = {}
    /\ dpc = [p \in DlProcs |-> "idle"]
    /\ did = [p \in DlProcs |-> ""]
    /\ dtodo = [p \in DlProcs |-> <<>>]
    /\ dreq = [p \in DlProcs |-> FALSE]
    /\ devs = [p \in DlProcs |-> {}]
    /\ dpeers = [p \in DlProcs |-> {}]
    /\ dprog = [p \in DlProcs |-> NoProg]
    /\ devent = NoEvent
    /\ dret = NoDlRet

\* A caller asks for the readiness of a model: get_all_models_status for a
\* catalog entry, ensure_model and preload_model for the id they are given.
ModelStatus(id) ==
    /\ qready' = [id |-> id, ready |-> model_ready(id, disk)]
    /\ UNCHANGED notCat

CatNext == \E id \in ModelIds : ModelStatus(id)

\* --------------------------------------------------------- downmix to mono
\* Samples are fixed-point: 12 units stand for 1.0. The values drawn keep every
\* quotient by a channel count of ChannelCounts exact.
SampleValues == {-12, 6, 12}

ChannelCounts == {1, 2, 3}

RECURSIVE SumSamples(_)
SumSamples(frame) ==
    IF frame = <<>> THEN 0 ELSE Head(frame) + SumSamples(Tail(frame))

\* data.chunks_exact(ch): the complete frames, a shorter remainder left out.
ChunksExact(data, ch) ==
    [k \in 1..(Len(data) \div ch) |-> SubSeq(data, (k - 1) * ch + 1, k * ch)]

\* samples.chunks(channels): the frames, the last one shorter when the length
\* is no multiple of channels.
Chunks(data, ch) ==
    [k \in 1..((Len(data) + ch - 1) \div ch) |->
        SubSeq(data, (k - 1) * ch + 1, Min(k * ch, Len(data)))]

\* A downmix that keeps the first channel of each frame.
mix_to_mono_first(data, channels) ==
    IF channels <= 1 THEN data
    ELSE [k \in 1..Len(ChunksExact(data, channels)) |-> ChunksExact(data, channels)[k][1]]

\* recorder.rs mix_to_mono
mix_to_mono(data, channels) ==
    IF channels <= 1 THEN data
    ELSE LET frames == ChunksExact(data, channels)
         IN  [k \in 1..Len(frames) |-> SumSamples(frames[k]) \div channels]

\* audio_converter.rs decode_audio, the downmix of one decoded packet
decode_downmix(samples, channels) ==
    IF channels = 1 THEN samples
    ELSE LET frames == Chunks(samples, channels)
         IN  [k \in 1..Len(frames) |-> SumSamples(frames[k]) \div channels]

MixInit ==
    /\ mdata = <<>>
    /\ mch = 1
    /\ mlive = None
    /\ mfile = None

MixInputInit ==
    /\ \E n \in 0..MaxSamples : mdata \in [1..n -> SampleValues]
    /\ mch \in ChannelCounts
    /\ mlive = None
    /\ mfile = None

\* The input callback converts the samples of one callback.
MixToMono ==
    /\ mlive = None
    /\ mlive' = Some(mix_to_mono(mdata, mch))
    /\ UNCHANGED <<mdata, mch, mfile>>
    /\ UNCHANGED notMix

\* decode_audio downmixes the samples of one packet.
DecodeDownmix ==
    /\ mfile = None
    /\ mfile' = Some(decode_downmix(mdata, mch))
    /\ UNCHANGED <<mdata, mch, mlive>>
    /\ UNCHANGED notMix

MixNext == MixToMono \/ DecodeDownmix

\* ------------------------------------------------------ output file naming
\* The output directory holds, for one stem, the files "<stem>.txt" (index 1)
\* and "<stem> (i).txt" (index i); a uuid-suffixed file is never looked up again.
OutInit ==
    /\ odir = {}
    /\ opath = None

\* Output directories: the candidates 1..k all present, and up to MaxStray
\* further files right after the first gap.
OutDirInit ==
    /\ \E k \in 0..MaxCandidate, S \in SUBSET (1..MaxStray) :
          odir = (1..k) \cup {i \in {k + 1 + j : j \in S} : i <= MaxCandidate}
    /\ opath = None

\* let output_path = unique_output_path(&file_name);
UniqueOutputPathCall ==
    /\ opath = None
    /\ opath' = Some(UniqueOutputPath(odir))
    /\ UNCHANGED odir
    /\ UNCHANGED notOut

\* std::fs::write(&output_path, text.trim()) creates the file.
WriteOutput ==
    /\ opath # None
    /\ odir' = odir \cup ({opath[1]} \ {UuidPath})
    /\ opath' = None
    /\ UNCHANGED notOut

OutNext == UniqueOutputPathCall \/ WriteOutput

\* -------------------------------------------------------- transcription engine
EngProcs == 1..NumEngProcs

\* The ids the engine is asked for: the engine-A model, two engine-B models and
\* one id that is not in the catalog.
EngModelIds ==
    {"parakeet-tdt-0.6b-v3", "whisper-small-q5_1", "whisper-medium-q5_0", "no-such-model"}

\* model_registry::DEFAULT_MODEL_ID
DEFAULT_MODEL_ID == "parakeet-tdt-0.6b-v3"

\* def.engine of a catalog id.
EngineOf(id) == Head(find_model(id)).engine

\* A loaded model instance (ParakeetTDT or WhisperContext): its engine, the id
\* of the directory it was loaded from and the call that constructed it.
Inst(engine, id, by) == [engine |-> engine, id |-> id, by |-> by]

\* The static an engine keeps its instance in.
Cache(engine) == IF engine = "parakeet" THEN PARAKEET_MODEL ELSE WHISPER_CTX

\* The files and the directory of an installed model.
Installed(id) ==
    {Dir(id)} \cup
    {Path(id, file_dest_name(Head(find_model(id)).files[j])) :
        j \in 1..Len(Head(find_model(id)).files)}

\* What the step just taken did in the engine: the call, its operation and
\* model id, and the value it returned ("none": the call goes on).
Act(p, op, id, ret) == [proc |-> p, op |-> op, id |-> id, ret |-> ret]

NoAct == Act(0, "none", "", "none")

EngInit ==
    /\ PARAKEET_MODEL = None
    /\ WHISPER_CTX = None
    /\ elock = [parakeet |-> 0, whisper |-> 0]
    /\ live = {}
    /\ epc = [p \in EngProcs |-> "idle"]
    /\ eop = [p \in EngProcs |-> "none"]
    /\ eid = [p \in EngProcs |-> ""]
    /\ enew = [p \in EngProcs |-> None]
    /\ eact = NoAct

\* The build the other subsystems are run on, and either build.
BuildOther == cfg_windows = FALSE

BuildAny == cfg_windows \in BOOLEAN

\* The models directory as an earlier run left it: each of the three models
\* either installed or absent.
EngDiskInit ==
    /\ DOWNLOAD_IN_PROGRESS = FALSE
    /\ \E S \in SUBSET (EngModelIds \ {"no-such-model"}) :
          disk = UNION {Installed(id) : id \in S}
    /\ partial = {}
    /\ dpc = [p \in DlProcs |-> "idle"]
    /\ did = [p \in DlProcs |-> ""]
    /\ dtodo = [p \in DlProcs |-> <<>>]
    /\ dreq = [p \in DlProcs |-> FALSE]
    /\ devs = [p \in DlProcs |-> {}]
    /\ dpeers = [p \in DlProcs |-> {}]
    /\ dprog = [p \in DlProcs |-> NoProg]
    /\ devent = NoEvent
    /\ dret = NoDlRet

\* A call returns: its locals are dropped.
EngReturn(p, ret) ==
    /\ eact' = Act(p, eop[p], eid[p], ret)
    /\ epc' = [epc EXCEPT ![p] = "idle"]
    /\ eop' = [eop EXCEPT ![p] = "none"]
    /\ eid' = [eid EXCEPT ![p] = ""]

\* A call goes on at pc.
EngGoto(p, pc) ==
    /\ eact' = Act(p, eop[p], eid[p], "none")
    /\ epc' = [epc EXCEPT ![p] = pc]
    /\ UNCHANGED <<eop, eid>>

\* preload_model: an id that is not in the catalog, or a model that is not
\* ready, returns Ok(()); otherwise load_parakeet() or load_whisper(model_id).
PreloadModel(p, id) ==
    /\ epc[p] = "idle"
    /\ IF find_model(id) = None \/ ~model_ready(id, disk)
       THEN /\ eact' = Act(p, "preload", id, "Ok")
            /\ UNCHANGED <<epc, eop, eid>>
       ELSE /\ eact' = Act(p, "preload", id, "none")
            /\ epc' = [epc EXCEPT ![p] = "load_lock"]
            /\ eop' = [eop EXCEPT ![p] = "preload"]
            /\ eid' = [eid EXCEPT ![p] = id]
    /\ UNCHANGED <<PARAKEET_MODEL, WHISPER_CTX, elock, live, enew>>
    /\ UNCHANGED notEng

\* transcribe_from_samples after ensure_model returned Ok: find_model, then
\* transcribe_parakeet or transcribe_whisper on a blocking thread.
Transcribe(p, id) ==
    /\ epc[p] = "idle"
    /\ IF find_model(id) = None
       THEN /\ eact' = Act(p, "transcribe", id, "Unknown model")
            /\ UNCHANGED <<epc, eop, eid>>
       ELSE /\ eact' = Act(p, "transcribe", id, "none")
            /\ epc' = [epc EXCEPT ![p] = "load_lock"]
            /\ eop' = [eop EXCEPT ![p] = "transcribe"]
            /\ eid' = [eid EXCEPT ![p] = id]
    /\ UNCHANGED <<PARAKEET_MODEL, WHISPER_CTX, elock, live, enew>>
    /\ UNCHANGED notEng

\* A lock that is taken whoever holds it.
UnlockedAlways(locks, engine) == TRUE

\* parking_lot::Mutex::lock returns when no call holds the mutex of the
\* engine's static.
Unlocked(locks, engine) == locks[engine] = 0

\* A load that never finds its model cached.
CacheHitNever(engine, cache, id) == FALSE

\* load_parakeet: lock.is_some(); load_whisper: the cached id is model_id.
CacheHit(engine, cache, id) ==
    /\ cache # None
    /\ engine = "whisper" => Head(cache).id = id

\* Where a call goes after its load returned Ok(()).
AfterLoad(p) ==
    IF eop[p] = "preload" THEN EngReturn(p, "Ok") ELSE EngGoto(p, "infer_lock")

\* load_parakeet / load_whisper: take the lock; a cached model returns Ok(());
\* load_whisper then requires model.bin in the model directory.
LoadLock(p) ==
    /\ epc[p] = "load_lock"
    /\ LET engine == EngineOf(eid[p])
       IN  /\ Unlocked(elock, engine)
           /\ IF CacheHit(engine, Cache(engine), eid[p])
              THEN /\ AfterLoad(p)
                   /\ UNCHANGED elock
              ELSE IF engine = "whisper" /\ Path(eid[p], "model.bin") \notin disk
              THEN /\ EngReturn(p, "Whisper model file not found")
                   /\ UNCHANGED elock
              ELSE /\ EngGoto(p, "load")
                   /\ elock' = [elock EXCEPT ![engine] = p]
    /\ UNCHANGED <<PARAKEET_MODEL, WHISPER_CTX, live, enew>>
    /\ UNCHANGED notEng

\* transcriber::default_execution_config: Some(DirectML) under cfg(windows),
\* None otherwise.
default_execution_config(windows) == IF windows THEN Some("DirectML") ELSE None

\* Whether the constructor calls of a load end with an instance. load_parakeet:
\* with a config, from_pretrained(dir, Some(config)) and, when that fails,
\* from_pretrained(dir, None); without one, from_pretrained(dir, None) alone.
\* load_whisper: WhisperContext::new_with_params with use_gpu(true), once.
\* accel_ok and cpu_ok are the outcomes of the accelerated and of the CPU-only
\* constructor call.
Constructed(engine, config, accel_ok, cpu_ok) ==
    IF engine = "parakeet"
    THEN IF config # None THEN accel_ok \/ cpu_ok ELSE cpu_ok
    ELSE accel_ok

\* load_parakeet: ParakeetTDT::from_pretrained(dir of DEFAULT_MODEL_ID, ..);
\* load_whisper: WhisperContext::new_with_params(model.bin, ..). The instance
\* comes to exist only from files that are on disk; a failure leaves through
\* `?` and releases the lock.
LoadConstruct(p, accel_ok, cpu_ok) ==
    /\ epc[p] = "load"
    /\ LET engine == EngineOf(eid[p])
           dir == IF engine = "parakeet" THEN DEFAULT_MODEL_ID ELSE eid[p]
           config == default_execution_config(cfg_windows)
       IN  IF Constructed(engine, config, accel_ok, cpu_ok) /\ model_ready(dir, disk)
           THEN /\ live' = live \cup {Inst(engine, dir, p)}
                /\ enew' = [enew EXCEPT ![p] = Some(Inst(engine, dir, p))]
                /\ EngGoto(p, "assign")
                /\ UNCHANGED elock
           ELSE /\ EngReturn(p, "Failed to load model")
                /\ elock' = [elock EXCEPT ![engine] = 0]
                /\ UNCHANGED <<live, enew>>
    /\ UNCHANGED <<PARAKEET_MODEL, WHISPER_CTX>>
    /\ UNCHANGED notEng

\* The instances left when the value of a cache is replaced: the replaced
\* value is dropped.
DropReplaced(cache, instances) ==
    IF cache = None THEN instances ELSE instances \ {Head(cache)}

\* load_parakeet: *lock = Some(model); load_whisper: *lock = Some((id, ctx));
\* Ok(()) and the lock is released.
LoadAssign(p) ==
    /\ epc[p] = "assign"
    /\ LET engine == EngineOf(eid[p])
       IN  /\ IF engine = "parakeet"
              THEN /\ PARAKEET_MODEL' = enew[p]
                   /\ UNCHANGED WHISPER_CTX
              ELSE /\ WHISPER_CTX' = enew[p]
                   /\ UNCHANGED PARAKEET_MODEL
           /\ live' = DropReplaced(Cache(engine), live)
           /\ elock' = [elock EXCEPT ![engine] = 0]
           /\ enew' = [enew EXCEPT ![p] = None]
           /\ AfterLoad(p)
    /\ UNCHANGED notEng

\* transcribe_parakeet / transcribe_whisper after the load: take the lock again;
\* an empty cache is the error "not loaded".
InferLock(p) ==
    /\ epc[p] = "infer_lock"
    /\ LET engine == EngineOf(eid[p])
       IN  /\ Unlocked(elock, engine)
           /\ IF Cache(engine) = None
              THEN /\ EngReturn(p, "Model not loaded")
                   /\ UNCHANGED elock
              ELSE /\ EngGoto(p, "infer")
                   /\ elock' = [elock EXCEPT ![engine] = p]
    /\ UNCHANGED <<PARAKEET_MODEL, WHISPER_CTX, live, enew>>
    /\ UNCHANGED notEng

\* The inference on the cached instance ends, with a text or an error, and the
\* lock is released.
InferDone(p, ok) ==
    /\ epc[p] = "infer"
    /\ EngReturn(p, IF ok THEN "Ok" ELSE "Transcription failed")
    /\ elock' = [elock EXCEPT ![EngineOf(eid[p])] = 0]
    /\ UNCHANGED <<PARAKEET_MODEL, WHISPER_CTX, live, enew>>
    /\ UNCHANGED notEng

\* delete_model: find_model; an id that is not in the catalog is an error.
DeleteModel(p, id) ==
    /\ epc[p] = "idle"
    /\ IF find_model(id) = None
       THEN /\ eact' = Act(p, "delete", id, "Unknown model")
            /\ UNCHANGED <<epc, eop, eid>>
       ELSE /\ eact' = Act(p, "delete", id, "none")
            /\ epc' = [epc EXCEPT ![p] = "unload"]
            /\ eop' = [eop EXCEPT ![p] = "delete"]
            /\ eid' = [eid EXCEPT ![p] = id]
    /\ UNCHANGED <<PARAKEET_MODEL, WHISPER_CTX, elock, live, enew>>
    /\ UNCHANGED notEng

\* An unload that empties the cache of either engine.
UnloadedAny(engine, of, cache, id) == None

\* delete_model, the match on the engine: the cache `of` after the unload for a
\* model of `engine`. Engine A is emptied; engine B when the cached id is id.
Unloaded(engine, of, cache, id) ==
    IF engine # of THEN cache
    ELSE IF engine = "parakeet" THEN None
    ELSE IF cache # None /\ Head(cache).id = id THEN None
    ELSE cache

\* delete_model: lock the cache of the model's engine, unload, unlock.
DeleteUnload(p) ==
    /\ epc[p] = "unload"
    /\ LET engine == EngineOf(eid[p])
       IN  /\ Unlocked(elock, engine)
           /\ PARAKEET_MODEL' = Unloaded(engine, "parakeet", PARAKEET_MODEL, eid[p])
           /\ WHISPER_CTX' = Unloaded(engine, "whisper", WHISPER_CTX, eid[p])
           /\ live' = {i \in live : <<i>> \in {PARAKEET_MODEL, WHISPER_CTX}
                                        => <<i>> \in {PARAKEET_MODEL', WHISPER_CTX'}}
    /\ EngGoto(p, "remove")
    /\ UNCHANGED <<elock, enew>>
    /\ UNCHANGED notEng

\* delete_model: if dir.exists() { remove_dir_all(&dir).await? }; Ok(()). The
\* step emits no download event and returns from no ensure_model call.
DeleteRemove(p, removed) ==
    /\ epc[p] = "remove"
    /\ IF Dir(eid[p]) \notin disk
       THEN /\ EngReturn(p, "Ok")
            /\ UNCHANGED <<disk, partial>>
       ELSE IF removed
       THEN /\ disk' = {path \in disk : path[1] # eid[p]}
            /\ partial' = {path \in partial : path[1] # eid[p]}
            /\ EngReturn(p, "Ok")
       ELSE /\ EngReturn(p, "Io error")
            /\ UNCHANGED <<disk, partial>>
    /\ UNCHANGED <<PARAKEET_MODEL, WHISPER_CTX, elock, live, enew>>
    /\ devent' = NoEvent
    /\ dret' = NoDlRet
    /\ UNCHANGED <<DOWNLOAD_IN_PROGRESS, dpc, did, dtodo, dreq, devs, dpeers, dprog>>
    /\ UNCHANGED <<fileOnly, status_event, recOnly, catOnly, cfg_windows, pureOnly, ampOnly>>

\* A step of a delete_model call of caller p.
DelStep(p) ==
    \/ \E id \in ModelIds : DeleteModel(p, id)
    \/ DeleteUnload(p)
    \/ \E removed \in BOOLEAN : DeleteRemove(p, removed)

EngNext ==
    \/ \E p \in EngProcs, id \in EngModelIds : PreloadModel(p, id)
    \/ \E p \in EngProcs, id \in EngModelIds : Transcribe(p, id)
    \/ \E p \in EngProcs : LoadLock(p)
    \/ \E p \in EngProcs, accel_ok \in BOOLEAN, cpu_ok \in BOOLEAN :
          LoadConstruct(p, accel_ok, cpu_ok)
    \/ \E p \in EngProcs : LoadAssign(p)
    \/ \E p \in EngProcs : InferLock(p)
    \/ \E p \in EngProcs, ok \in BOOLEAN : InferDone(p, ok)
    \/ \E p \in EngProcs, id \in EngModelIds : DeleteModel(p, id)
    \/ \E p \in EngProcs : DeleteUnload(p)
    \/ \E p \in EngProcs, removed \in BOOLEAN : DeleteRemove(p, removed)

Init == FileInit /\ RecInit /\ DlInit /\ CatInit /\ EngInit /\ BuildOther /\ OutInit /\ MixInit

InitCat == FileInit /\ RecInit /\ CatDiskInit /\ CatInit /\ EngInit /\ BuildOther /\ OutInit /\ MixInit

InitEng == FileInit /\ RecInit /\ EngDiskInit /\ CatInit /\ EngInit /\ BuildAny /\ OutInit /\ MixInit

InitOut == FileInit /\ RecInit /\ DlInit /\ CatInit /\ EngInit /\ BuildOther /\ OutDirInit /\ MixInit

InitMix == FileInit /\ RecInit /\ DlInit /\ CatInit /\ EngInit /\ BuildOther
              /\ OutInit /\ MixInputInit

\* The two downmixes applied to the same interleaved samples.
SpecMix == InitMix /\ [][MixNext]_vars

\* unique_output_path followed by the write of the output file, over the
\* output directories of OutDirInit.
SpecOut == InitOut /\ [][OutNext]_vars

SpecCat == InitCat /\ [][CatNext]_vars

SpecFile == Init /\ [][FileNext]_vars

SpecRec == Init /\ [][RecNext]_vars

SpecRecSeq == Init /\ [][RecNextSeq]_vars

SpecDl == Init /\ [][DlNext]_vars

SpecEng == InitEng /\ [][EngNext]_vars

\* The recording session, commands not overlapping, with the clock running.
SpecRecTimed == Init /\ [][RecNextSeq \/ Tick]_vars

\* The transcription requests alone: transcribe_from_samples called from a
\* recording or from a file job.
TrNext ==
    \/ \E p \in EngProcs, id \in EngModelIds : Transcribe(p, id)
    \/ \E p \in EngProcs : LoadLock(p)
    \/ \E p \in EngProcs, accel_ok \in BOOLEAN, cpu_ok \in BOOLEAN :
          LoadConstruct(p, accel_ok, cpu_ok)
    \/ \E p \in EngProcs : LoadAssign(p)
    \/ \E p \in EngProcs : InferLock(p)
    \/ \E p \in EngProcs, ok \in BOOLEAN : InferDone(p, ok)

\* The scheduling of the blocking threads: a constructor call, an assignment
\* and an inference end (the thread keeps running), and a thread waiting in
\* parking_lot's Mutex::lock is not passed over for ever when the mutex keeps
\* being released.
TrFairness ==
    \A p \in EngProcs :
        /\ WF_vars(\E accel_ok \in BOOLEAN, cpu_ok \in BOOLEAN :
                       LoadConstruct(p, accel_ok, cpu_ok))
        /\ WF_vars(LoadAssign(p))
        /\ WF_vars(\E ok \in BOOLEAN : InferDone(p, ok))
        /\ SF_vars(LoadLock(p))
        /\ SF_vars(InferLock(p))

SpecTrFair == InitEng /\ [][TrNext]_vars /\ TrFairness

\* The ensure_model calls of one caller with the delete_model calls of another
\* beside them.
SpecDlDel == Init /\ [][DlStep(1) \/ DelStep(1)]_vars

Next == FileNext \/ RecNext \/ DlNext \/ CatNext \/ EngNext \/ OutNext \/ MixNext \/ Tick

Spec == Init /\ [][Next]_vars

\* ------------------------------------------------------------------ claims

\* A transcribe_file call that holds the processing guard.
InFlight(p) == fpc[p] # "idle"

\* C1: every transcribe_file call that took the processing guard leaves, when it
\* returns (success, decode error, transcription error, failed write, or
\* cancellation), both file_processing and file_cancel_requested cleared.
C1_ReturnClearsFlags ==
    [][\A p \in FileProcs :
          (InFlight(p) /\ ~InFlight(p)')
             => (~file_processing' /\ ~file_cancel_requested')]_vars

\* C2: at most one file job is in flight at any time, under any interleaving;
\* a call made while another job holds the guard returns "Already processing a
\* file" and changes neither the flags nor the running job's events and state.
C2_SingleFlight ==
    /\ [](Cardinality({p \in FileProcs : InFlight(p)}) <= 1)
    /\ [][\A p \in FileProcs :
             (TranscribeFile(p, TRUE, TRUE) /\ \E q \in FileProcs : InFlight(q))
                => /\ fret' = [proc |-> p, val |-> "Already processing a file"]
                   /\ UNCHANGED <<file_processing, file_cancel_requested, file_events,
                                  fpc, fdur, fres, fclock, tpc, progress_stop,
                                  SPEED_RATIO_USECS, out_files, status_event>>]_vars

\* A call has just been rejected while another caller's job is in flight.
C2_Witness ==
    /\ fret.val = "Already processing a file"
    /\ \E q \in FileProcs : q # fret.proc /\ InFlight(q) /\ fpc[q] = "transcribing"

\* The session state a recording step may write, and the commands in flight.
sessionVars == <<status, audio_buffer, ACTIVE_STREAM, playing, nstreams, rtasks,
                 status_event>>

\* C3: a start invoked while status is Recording returns "Already recording" and
\* changes nothing: the status, the sample buffer and the active capture stream
\* are what they were.
C3_StartWhileRecordingRejected ==
    [][\A device \in BOOLEAN :
          (status = "recording" /\ RecStart(device))
             => /\ rret' = RecRet("start", "Already recording")
                /\ UNCHANGED sessionVars]_vars

\* A start has just been rejected during a recording that holds samples.
C3_Witness ==
    /\ rret = RecRet("start", "Already recording")
    /\ status = "recording"
    /\ ACTIVE_STREAM # 0
    /\ audio_buffer # {}

\* C4: a start invoked while status is not Idle (Recording or Transcribing)
\* fails: it returns an error, does not clear the buffer, opens no capture
\* stream and does not set status to Recording.
C4_StartOnlyFromIdle ==
    [][\A device \in BOOLEAN :
          (status # "idle" /\ RecStart(device))
             => /\ rret'.cmd = "start"
                /\ rret'.val \notin {"none", "Ok"}
                /\ UNCHANGED sessionVars]_vars

\* C5: a stop that finds the sample buffer empty returns "No audio recorded",
\* leaves status Idle and ends there: it does not set status to Transcribing
\* and does not go on to the transcription engine.
C5_StopEmptyBuffer ==
    [][\A t \in InFlightTasks :
          (audio_buffer = {} /\ RecStopClone(t))
             => /\ rret' = RecRet("stop", "No audio recorded")
                /\ status' = "idle"
                /\ rtasks' = Retire(t)
                /\ UNCHANGED <<audio_buffer, status_event>>]_vars

\* A stop has just returned "No audio recorded" and the session is Idle.
C5_Witness ==
    /\ rret = RecRet("stop", "No audio recorded")
    /\ status = "idle"
    /\ audio_buffer = {}

\* C6: every change of the session status follows Idle -> Recording ->
\* Transcribing -> Idle: status never goes from Idle directly to Transcribing
\* and never from Transcribing to Recording.
C6_StatusCycle ==
    [][/\ ~(status = "idle" /\ status' = "transcribing")
       /\ ~(status = "transcribing" /\ status' = "recording")]_vars

\* C7: once a stop has moved the session to Transcribing, status is Idle when
\* that stop returns, whether the engine returned text or an error and whether
\* or not the paste or clipboard step succeeded.
C7_StopReturnsToIdle ==
    [][(rret'.cmd = "stop" /\ rret'.val # "No audio recorded")
          => status' = "idle"]_vars

\* C8: when a cancel returns, status is Idle and the buffer is empty; and a stop
\* that was waiting for the engine when the cancel returned delivers no result
\* afterwards: no transcription-complete event, no history entry, no paste or
\* clipboard copy.
C8_CancelDeliversNothing ==
    [][/\ rret'.cmd = "cancel" => (status' = "idle" /\ audio_buffer' = {})
       /\ (rret'.cmd = "stop" /\ rret'.cancelled)
             => (~rret'.complete /\ ~rret'.history /\ ~rret'.paste)]_vars

\* C9: at most one capture stream is playing at any time, under any
\* interleaving of start commands.
C9_OneCaptureStream == Cardinality(playing) <= 1

\* The callers inside the section the download-in-progress flag guards: from
\* the won compare-and-swap to the store(false).
Acquiring == {p \in DlProcs : dpc[p] \in {"find", "request", "stream"}}

\* C10, as stated: two concurrent ensure(id) calls on not-ready models result
\* in exactly one download sequence (never do both of two calls that were in
\* flight together issue a request), the call that loses the compare-and-swap
\* returns success without a request and without an event, and the flag is
\* never held by two acquisitions at once.
C10_ExactlyOneDownload ==
    /\ \A p, q \in DlProcs :
           (p # q /\ q \in dpeers[p] /\ p \in dpeers[q]) => ~(dreq[p] /\ dreq[q])
    /\ dret.via = "busy" => (dret.val = "Ok" /\ ~dret.requested /\ dret.events = {})
    /\ Cardinality(Acquiring) <= 1

\* C10, amended: the flag is held by at most one acquisition at a time and it is
\* set while one holds it; a call whose compare-and-swap finds the flag
\* set returns Ok having issued no request and emitted no event, and changes
\* neither the flag nor the disk nor the other calls; requests and events come
\* only from the call that holds the flag, so two download sequences never run
\* at the same time. (A second sequence can follow the first when the second
\* call's compare-and-swap comes after the first call's store(false).)
C10_OneAcquisitionAtATime ==
    /\ [](Cardinality(Acquiring) <= 1 /\ (Acquiring # {} => DOWNLOAD_IN_PROGRESS))
    /\ [][\A p \in DlProcs :
            /\ (DOWNLOAD_IN_PROGRESS /\ EnsureCas(p)) =>
                  /\ dret' = DlRet(p, did[p], "busy", "Ok", FALSE, {})
                  /\ ~dreq'[p]
                  /\ UNCHANGED <<DOWNLOAD_IN_PROGRESS, disk, partial, dpeers>>
                  /\ \A q \in DlProcs \ {p} :
                        UNCHANGED <<dpc[q], did[q], dtodo[q], dreq[q], devs[q]>>
            /\ ((dreq'[p] /\ ~dreq[p]) \/ ~(devs'[p] \subseteq devs[p])) =>
                  p \in Acquiring]_vars

\* A call on a not-ready model has just returned from the failed
\* compare-and-swap while a call for another id is in the middle of a file.
C10_Witness ==
    /\ dret.via = "busy"
    /\ dret.val = "Ok"
    /\ ~model_ready(dret.id, disk)
    /\ \E q \in DlProcs :
          /\ q # dret.proc
          /\ dpc[q] = "stream"
          /\ dreq[q]
          /\ did[q] # dret.id
          /\ did[q] \in {"parakeet-tdt-0.6b-v3", "whisper-small-q5_1"}
          /\ dret.id \in {"parakeet-tdt-0.6b-v3", "whisper-small-q5_1"}

\* C11: whenever an ensure_model call returns success, the model it was called
\* for is ready (every file of its definition is on disk under its
\* destination name) at that moment.
C11_EnsureOkImpliesReady == dret.val = "Ok" => model_ready(dret.id, disk)

\* C12: after an acquisition has failed in the middle of a file (no acquisition
\* is executing), a file left partially written is not counted as present:
\* a model is ready only when none of its files is partially written.
C12_PartialFileNotCounted ==
    Acquiring = {} =>
        \A i \in 1..Len(MODELS) :
            model_ready(MODELS[i].id, disk) =>
                \A j \in 1..Len(MODELS[i].files) :
                    Path(MODELS[i].id, file_dest_name(MODELS[i].files[j])) \notin partial

\* C13: when an acquisition ends, with success or with any failure, the
\* download-in-progress flag is released: the flag is false whenever no
\* acquisition is executing, it is false after every return that follows
\* do_ensure_model, and a compare-and-swap made while no acquisition is
\* executing succeeds and starts one.
C13_FlagReleased ==
    /\ [](Acquiring = {} => ~DOWNLOAD_IN_PROGRESS)
    /\ [][/\ dret'.via = "done" => ~DOWNLOAD_IN_PROGRESS'
          /\ \A p \in DlProcs :
                (Acquiring = {} /\ EnsureCas(p)) =>
                    (dpc'[p] = "find" /\ DOWNLOAD_IN_PROGRESS')]_vars

\* An acquisition has just ended with a failure (a request error, a chunk
\* error or a failed rename) after it had issued a request, and the flag is
\* released.
C13_Witness ==
    /\ dret.via = "done"
    /\ dret.val \in {"Failed to download", "Io error"}
    /\ dret.requested
    /\ ~DOWNLOAD_IN_PROGRESS
    /\ Acquiring = {}

\* C14: within one acquisition the overall percentage of the successive
\* model-download-progress events (starting, per-chunk, complete) never
\* decreases: every event carries at least the percentage of the event the
\* same acquisition emitted before it.
C14_OverallPctMonotone ==
    [][devent'.kind # "none" =>
          devent'.overall >= dprog[devent'.proc].reported]_vars

\* A per-chunk event has just been emitted by an acquisition that has received
\* more bytes than the approximate total size of its model, in a file that is
\* not the first one it downloads.
C14_Witness ==
    /\ devent.kind = "chunk"
    /\ LET p == devent.proc
       IN  /\ dpc[p] = "stream"
           /\ dprog[p].cumulative_offset > 0
           /\ dprog[p].cumulative_offset + dprog[p].downloaded
                  > Head(find_model(did[p])).approx_bytes

\* C15: the "complete" event, with overall percentage 100, is emitted only
\* when every file of the model exists on disk under its destination name
\* (the model is ready when it fires), and every other event of an acquisition
\* carries an overall percentage of at most 99.
C15_CompleteOnlyWhenReady ==
    /\ devent.kind = "complete" =>
          (devent.overall = CompletePct /\ model_ready(devent.id, disk))
    /\ devent.kind \in {"starting", "chunk"} => devent.overall <= OverallCap

\* C16: ensure_model called for a model that is ready returns Ok at once: it
\* issues no request, emits no event, leaves the download-in-progress flag,
\* the models directory and every other call as they are, also while another
\* acquisition is in progress.
C16_ReadyReturnsAtOnce ==
    [][\A p \in DlProcs, id \in ModelIds :
          (model_ready(id, disk) /\ EnsureModel(p, id)) =>
              /\ dret' = DlRet(p, id, "ready", "Ok", FALSE, {})
              /\ devent' = NoEvent
              /\ ~dreq'[p]
              /\ UNCHANGED <<DOWNLOAD_IN_PROGRESS, disk, partial, dpc, did, dtodo,
                             devs, dprog>>]_vars

\* A call for a ready model has just returned at once while another call holds
\* the flag and is in the middle of a file of another model.
C16_Witness ==
    /\ dret.via = "ready"
    /\ dret.val = "Ok"
    /\ model_ready(dret.id, disk)
    /\ DOWNLOAD_IN_PROGRESS
    /\ \E q \in DlProcs : q # dret.proc /\ dpc[q] = "stream" /\ did[q] # dret.id

\* The destination names of the files of a model, read off the catalog: the
\* rename-to name where the definition has one, else the last segment of the
\* url. An id that is not in the catalog has none.
DestinationNames(id) ==
    CASE id = "parakeet-tdt-0.6b-v3" ->
             {"encoder-model.onnx", "decoder_joint-model.onnx", "vocab.txt",
              "config.json", "nemo128.onnx"}
      [] id \in {"whisper-large-v3-turbo-q5_0", "whisper-large-v3-turbo-q8_0",
                 "whisper-medium-q5_0", "whisper-small-q5_1"} -> {"model.bin"}
      [] OTHER -> {}

CatalogIds ==
    {"parakeet-tdt-0.6b-v3", "whisper-large-v3-turbo-q5_0",
     "whisper-large-v3-turbo-q8_0", "whisper-medium-q5_0", "whisper-small-q5_1"}

\* C17: for every id of the catalog, model_ready is true exactly when every
\* file of the definition exists in the model directory under its destination
\* name, removing any one of these files makes it false, an id that is not in
\* the catalog is never ready, and the answer a caller is given is that value.
C17_ReadyIffAllFilesExist ==
    /\ \A id \in CatalogIds :
          /\ model_ready(id, disk) <=>
                 (\A n \in DestinationNames(id) : Path(id, n) \in disk)
          /\ \A n \in DestinationNames(id) : ~model_ready(id, disk \ {Path(id, n)})
    /\ \A id \in ModelIds \ CatalogIds : ~model_ready(id, disk)
    /\ qready.id # "" =>
          (qready.ready <=>
              /\ qready.id \in CatalogIds
              /\ \A n \in DestinationNames(qready.id) : Path(qready.id, n) \in disk)

\* A caller has been told that the five-file model is ready, in a directory
\* that holds the renamed files only under their destination names, while the
\* single-file model, present only under the name of its url, is not ready.
C17_Witness ==
    /\ qready = [id |-> "parakeet-tdt-0.6b-v3", ready |-> TRUE]
    /\ Path("parakeet-tdt-0.6b-v3", "encoder-model.int8.onnx") \notin disk
    /\ Path("whisper-small-q5_1", "ggml-small-q5_1.bin") \in disk
    /\ ~model_ready("whisper-small-q5_1", disk)

\* C18: each engine kind keeps at most one cached instance, and a load that
\* finds its model cached (engine B: the cached id is the requested id; engine
\* A: any cached instance) returns success without constructing an instance
\* and without changing either cache.
C18_LoadIdempotent ==
    /\ [](Len(PARAKEET_MODEL) <= 1 /\ Len(WHISPER_CTX) <= 1 /\
          (\A i \in live : (<<i>> = Cache(i.engine)) \/
                            (elock[i.engine] = i.by /\ enew[i.by] = <<i>>)))
    /\ [][\A p \in EngProcs :
            (/\ LoadLock(p)
             /\ \/ EngineOf(eid[p]) = "parakeet" /\ PARAKEET_MODEL # None
                \/ /\ EngineOf(eid[p]) = "whisper" /\ WHISPER_CTX # None
                   /\ Head(WHISPER_CTX).id = eid[p])
            => /\ UNCHANGED <<PARAKEET_MODEL, WHISPER_CTX, live, enew, elock>>
               /\ epc'[p] # "load"
               /\ eop[p] = "preload" => (epc'[p] = "idle" /\ eact'.ret = "Ok")
               /\ eop[p] = "transcribe" => epc'[p] = "infer_lock"]_vars

\* A preload of an installed engine-B model returned Ok and the cached instance
\* of that id was constructed by another call: the load was answered from the
\* cache.
C18_Witness ==
    /\ eact.op = "preload" /\ eact.ret = "Ok"
    /\ eact.id = "whisper-small-q5_1"
    /\ model_ready(eact.id, disk)
    /\ WHISPER_CTX # None
    /\ Head(WHISPER_CTX).id = eact.id
    /\ Head(WHISPER_CTX).by # eact.proc

\* C19: during a switch of the engine-B model the previous instance is dropped
\* before the new one is loaded: the old and the new engine-B instance never
\* exist at the same moment.
C19_OldDroppedBeforeNewLoad ==
    Cardinality({i \in live : i.engine = "whisper"}) <= 1

\* C20: the caches of the two engines are independent: a step of a call for an
\* engine-B model leaves the engine-A cache and instance as they are, and a
\* step of a call for the engine-A model leaves the engine-B cache and instance
\* as they are.
C20_CachesIndependent ==
    [][/\ (\/ PARAKEET_MODEL' # PARAKEET_MODEL
           \/ {i \in live' : i.engine = "parakeet"} # {i \in live : i.engine = "parakeet"})
          => (find_model(eact'.id) # None /\ EngineOf(eact'.id) = "parakeet")
       /\ (\/ WHISPER_CTX' # WHISPER_CTX
           \/ {i \in live' : i.engine = "whisper"} # {i \in live : i.engine = "whisper"})
          => (find_model(eact'.id) # None /\ EngineOf(eact'.id) = "whisper")]_vars

\* Both caches are warm just after an engine-B model was deleted: the engine-A
\* instance survived the delete of one engine-B model while another is cached.
C20_Witness ==
    /\ eact.op = "delete" /\ eact.ret = "Ok"
    /\ eact.id = "whisper-small-q5_1"
    /\ PARAKEET_MODEL # None
    /\ WHISPER_CTX # None
    /\ Head(WHISPER_CTX).id = "whisper-medium-q5_0"

\* C21: for both engine kinds a load whose CPU-only constructor call would
\* succeed from the files on disk ends with an instance: the caller receives
\* an error only when the CPU-only attempt fails too, never because of the
\* failed accelerated attempt.
C21_CpuFallback ==
    [][\A p \in EngProcs, accel_ok \in BOOLEAN :
          (/\ LoadConstruct(p, accel_ok, TRUE)
           /\ model_ready(IF EngineOf(eid[p]) = "parakeet" THEN DEFAULT_MODEL_ID
                          ELSE eid[p], disk))
          => (eact'.ret = "none" /\ epc'[p] = "assign" /\ enew'[p] # None)]_vars

\* The calls that hold the mutex of an engine: in a constructor call, at the
\* assignment, or in an inference.
InEngine(engine) ==
    {p \in EngProcs : epc[p] \in {"load", "assign", "infer"} /\ EngineOf(eid[p]) = engine}

\* C22: per engine kind at most one call is loading or inferring at a time (so
\* at most one inference runs on an instance and no load runs beside an
\* inference on the same engine), and the locks are always released: a held
\* lock is released again and every call waiting for a lock proceeds.
C22_InferenceSerialized ==
    /\ [](\A engine \in {"parakeet", "whisper"} :
            /\ Cardinality(InEngine(engine)) <= 1
            /\ \A p \in InEngine(engine) : elock[engine] = p
            /\ InEngine(engine) = {} => elock[engine] = 0)
    /\ \A engine \in {"parakeet", "whisper"} : (elock[engine] # 0) ~> (elock[engine] = 0)
    /\ \A p \in EngProcs :
          /\ (epc[p] = "load_lock") ~> (epc[p] # "load_lock")
          /\ (epc[p] = "infer_lock") ~> (epc[p] # "infer_lock")

\* An inference runs on the engine-B instance while another transcription of
\* an engine-B model waits for the lock.
C22_Witness ==
    \E p, q \in EngProcs :
        /\ p # q
        /\ epc[p] = "infer" /\ EngineOf(eid[p]) = "whisper" /\ eop[p] = "transcribe"
        /\ epc[q] \in {"load_lock", "infer_lock"} /\ eop[q] = "transcribe"
        /\ EngineOf(eid[q]) = "whisper"

\* C23: when cancel() was called during a file job, before either checkpoint,
\* the job ends without an output file and without a "completed" or "error"
\* event: it emits the idle status template and returns Ok (a decode that
\* fails leaves with its own error).
C23_CancelDiscardsJob ==
    [][\A p \in FileProcs :
          (fcancel_job /\ fpc[p] # "idle" /\ fpc'[p] = "idle")
          => \/ fret' = [proc |-> p, val |-> "Decode error"] /\ fpc[p] = "decoding"
                    /\ UNCHANGED <<out_files, file_events>>
             \/ /\ fret' = [proc |-> p, val |-> "Ok"]
                /\ file_events' = Append(file_events, FileStatus("idle", 0))
                /\ out_files' = out_files]_vars

\* C24: within one file job the percent of the successive
\* file-transcription-status events (converting, transcribing, and the
\* terminal completed or error event) never decreases.
C24_FilePercentMonotone ==
    \A i, j \in 1..Len(file_events) :
        (/\ i < j
         /\ file_events[i].status \in {"converting", "transcribing", "completed", "error"}
         /\ file_events[j].status \in {"converting", "transcribing", "completed", "error"})
        => file_events[i].progress <= file_events[j].progress

\* C25: every "transcribing" event of a file job carries a percent below 100,
\* however long the transcription runs compared with the estimate; percent
\* 100 appears only in the "completed" event, which is emitted after the
\* transcription has returned a text and in the step that writes the output
\* file.
C25_HundredOnlyWhenCompleted ==
    /\ [](\A i \in 1..Len(file_events) :
            /\ file_events[i].status = "transcribing" =>
                  (file_events[i].progress <= PctCap /\ file_events[i].progress < 100)
            /\ file_events[i].progress = 100 => file_events[i].status = "completed")
    /\ [][\A p \in FileProcs :
            (/\ fpc[p] # "idle"
             /\ Len(file_events') = Len(file_events) + 1
             /\ file_events'[Len(file_events')].status = "completed")
            => /\ fpc[p] = "join" /\ fres[p] = "text" /\ tpc[p] = "off"
               /\ out_files' # out_files
               /\ out_files \subseteq out_files']_vars

\* A job completed after its transcription ran for twice the estimate: the two
\* progress events carry the cap and the completed event carries 100.
C25_Witness ==
    /\ Len(file_events) = 5
    /\ file_events[3] = FileStatus("transcribing", PctCap)
    /\ file_events[4] = FileStatus("transcribing", PctCap)
    /\ file_events[5] = FileStatus("completed", 100)
    /\ out_files # {}

\* C26: with SpeedRatio at 1.0 after an earlier observation, a file job whose
\* observed ratio is 2.0 leaves SpeedRatio at 1.7 (1700000 microseconds), and
\* from 1.7 a job whose observed ratio is 1.0 leaves it at 1.21 (1210000).
C26_BlendExample ==
    [][\A p \in FileProcs :
          (fpc[p] = "join" /\ fpc'[p] = "idle" /\ fdur[p] > 0 /\ fobserved)
          => /\ (SPEED_RATIO_USECS = 1000000 /\ fclock[p] = 2 * fdur[p])
                    => SPEED_RATIO_USECS' = 1700000
             /\ (SPEED_RATIO_USECS = 1700000 /\ fclock[p] = fdur[p])
                    => SPEED_RATIO_USECS' = 1210000]_vars

\* C27: the first observation of the process replaces SpeedRatio with the
\* observed ratio; every later job with a positive audio duration sets it to
\* 0.3 * old + 0.7 * observed (to the microsecond the cast keeps), also when the
\* stored value equals the initial 1.0 again; a job with no audio leaves it.
C27_BlendAfterFirst ==
    [][\A p \in FileProcs :
          (fpc[p] = "join" /\ fpc'[p] = "idle")
          => IF fdur[p] = 0 THEN UNCHANGED SPEED_RATIO_USECS
             ELSE IF ~fobserved
             THEN SPEED_RATIO_USECS' = (fclock[p] * USEC) \div fdur[p]
             ELSE \E loss \in {0, 1} :
                     SPEED_RATIO_USECS' =
                        (3 * SPEED_RATIO_USECS * fdur[p] + 7 * fclock[p] * USEC)
                            \div (10 * fdur[p]) - loss]_vars

\* C28: unique_output_path returns the first path of the sequence S.txt,
\* S (2).txt, ..., S (999).txt that does not exist (S.txt and S (2).txt present
\* give S (3).txt), never an existing path, and the uuid-suffixed name only
\* when all 999 exist.
C28_FirstFreeCandidate ==
    opath # None =>
        /\ opath[1] \notin odir
        /\ opath[1] # UuidPath =>
              /\ opath[1] \in 1..MaxCandidate
              /\ \A j \in 1..(opath[1] - 1) : j \in odir
        /\ opath[1] = UuidPath <=> \A j \in 1..MaxCandidate : j \in odir
        /\ odir = {1, 2} => opath[1] = 3

C28_Witness ==
    /\ odir = {1, 2}
    /\ opath = Some(3)

\* The mono samples are the unweighted means of the complete frames of the
\* input, in frame order.
FrameMeans(out, data, ch) ==
    /\ Len(out) >= Len(data) \div ch
    /\ \A k \in 1..(Len(data) \div ch) :
          ch * out[k] = SumSamples(SubSeq(data, (k - 1) * ch + 1, k * ch))

\* C29: downmix to mono takes, for each frame of N interleaved samples, the
\* unweighted mean of the N samples, in frame order ([1.0, -1.0, 0.5, 0.5] with
\* 2 channels gives [0.0, 0.5]); 1-channel input is returned unchanged; the live
\* and the file downmix agree on every input whose length is a multiple of N.
C29_DownmixIsFrameMean ==
    /\ mlive # None =>
          /\ FrameMeans(mlive[1], mdata, mch)
          /\ Len(mlive[1]) = Len(mdata) \div mch
          /\ mch = 1 => mlive[1] = mdata
          /\ (mdata = <<12, -12, 6, 6>> /\ mch = 2) => mlive[1] = <<0, 6>>
    /\ mfile # None =>
          /\ FrameMeans(mfile[1], mdata, mch)
          /\ mch = 1 => mfile[1] = mdata
          /\ (mdata = <<12, -12, 6, 6>> /\ mch = 2) => mfile[1] = <<0, 6>>
    /\ (mlive # None /\ mfile # None /\ Len(mdata) % mch = 0) => mlive = mfile

C29_Witness ==
    /\ mdata = <<12, -12, 6, 6>>
    /\ mch = 2
    /\ mlive = Some(<<0, 6>>)
    /\ mfile = Some(<<0, 6>>)

\* C30: when the transcription of a recording returns an empty text, the stop
\* adds no history entry, neither pastes nor copies to the clipboard, emits
\* the transcription-complete event with the empty text, sets the status to
\* Idle and emits status-changed "idle".
C30_EmptyTextDeliversNothing ==
    [][\A t \in InFlightTasks, o \in InferOutcomes :
          (o.res = "empty" /\ RecStopInferred(t, o))
          => /\ ~rret'.history
             /\ ~rret'.paste
             /\ rret'.complete
             /\ rret'.complete_text = "empty"
             /\ rret'.val = "Ok"
             /\ status' = "idle"
             /\ status_event' = "idle"]_vars

C30_Witness ==
    /\ rret.cmd = "stop"
    /\ rret.complete
    /\ rret.complete_text = "empty"
    /\ ~rret.history
    /\ ~rret.paste
    /\ status = "idle"
    /\ status_event = "idle"

\* C31: stop consumes the sample buffer: once a stop has taken the samples for
\* transcription the shared buffer is empty, so that a further stop without a
\* new start finds no samples.
C31_StopConsumesBuffer ==
    [][\A t \in InFlightTasks :
          (RecStopClone(t) /\ ~NoAudio(audio_buffer)) => audio_buffer' = {}]_vars

\* C32: while a recording is running the audio-amplitude events are throttled:
\* no two of them are emitted less than 50 ms apart.
C32_AmplitudeThrottled ==
    [][\A s \in Streams :
          (AudioCallback(s) /\ status = "recording" /\ amp_last # None)
          => now - amp_last[1] >= ThrottleMs]_vars

\* C33: a per-chunk progress event is emitted only when its overall percentage
\* differs from the overall percentage the acquisition reported last: two
\* consecutive per-chunk events never carry the same overall percentage, also
\* when the second is the first event of the next file.
C33_ChunkEventOnlyOnChange ==
    [][devent'.kind = "chunk" =>
          devent'.overall # dprog[devent'.proc].reported]_vars

\* A per-chunk event has just been emitted in a file that is not the first of
\* its acquisition and did not start at 0, after more than one chunk of it.
C33_Witness ==
    /\ devent.kind = "chunk"
    /\ LET p == devent.proc
       IN  /\ dprog[p].cumulative_offset > 0
           /\ InitialOverallPct(dprog[p].cumulative_offset,
                                Head(find_model(did[p])).approx_bytes) > 0
           /\ dprog[p].downloaded > 340000000

\* C34: an engine-B inference requested for model id X runs on the cached
\* instance loaded from X: from the return of the load of a request to the end
\* of its inference the engine-B cache holds an instance whose id is X.
C34_InferenceOnRequestedModel ==
    \A p \in EngProcs :
        (epc[p] \in {"infer_lock", "infer"} /\ EngineOf(eid[p]) = "whisper")
        => (WHISPER_CTX # None /\ Head(WHISPER_CTX).id = eid[p])

\* C35: a capture stream is held only while the status is Recording: in every
\* reachable state, status Idle or Transcribing implies that ACTIVE_STREAM is
\* empty.
C35_StreamOnlyWhileRecording ==
    status \in {"idle", "transcribing"} => ACTIVE_STREAM = 0

\* C36: the status-changed events mirror the session status: whenever no
\* recording command is in flight, the payload of the most recent
\* status-changed event equals the status.
C36_EventsMirrorStatus ==
    rtasks = EmptyBag => status_event = status

\* C37: during a recording exactly one escape-monitor thread is running: there
\* are never two monitor threads inside their polling loop at once.
C37_OneEscapeMonitor ==
    mon_running <= 1

\* ---- C38 ----
\* A step of job p that passes one of its two cancellation checkpoints: the one
\* after a successful decode, or the one after the progress task was awaited.
FileCheckpoint(p) ==
    \/ /\ fpc[p] = "decoding"
       /\ \/ fpc'[p] = "transcribing"
          \/ fpc'[p] = "idle" /\ fret'.val # "Decode error"
    \/ fpc[p] = "join" /\ fpc'[p] = "idle"

\* The step ends job p as a cancelled job: guard released, the idle status
\* event, Ok returned and nothing written.
FileCancelledAt(p) ==
    /\ fpc'[p] = "idle"
    /\ file_processing' = FALSE
    /\ fret' = [proc |-> p, val |-> "Ok"]
    /\ file_events' = Append(file_events, FileStatus("idle", 0))
    /\ out_files' = out_files

NoProgressAfterTerminal(events) ==
    \A i, j \in 1..Len(events) :
        (i < j /\ events[i].status \in {"completed", "error", "idle"})
        => events[j].status # "transcribing"

\* The step in which the progress task of job p emits an event.
ProgressEmits(p) ==
    /\ tpc[p] = "emit"
    /\ tpc'[p] = "sleep"
    /\ Len(file_events') = Len(file_events) + 1

\* C39 as stated: within one file job no "transcribing" event follows the
\* terminal event, the progress task has finished when the terminal event is
\* emitted, and the task emits nothing once it has been told to stop.
C39_NoProgressAfterStop ==
    [][/\ NoProgressAfterTerminal(file_events')
       /\ \A p \in FileProcs :
             /\ (fpc[p] = "join" /\ fpc'[p] = "idle") => tpc[p] = "off"
             /\ progress_stop[p] => ~ProgressEmits(p)]_vars

\* C39 amended: within one file job no "transcribing" event follows the terminal
\* event and the progress task has finished when the terminal event is emitted;
\* a task told to stop leaves its loop without emitting at its next read of the
\* stop flag, so that after the stop it emits at most the one event whose read
\* of the flag came before the stop.
C39_NoProgressAfterTerminal ==
    [][/\ NoProgressAfterTerminal(file_events')
       /\ \A p \in FileProcs :
             /\ (fpc[p] = "join" /\ fpc'[p] = "idle") => tpc[p] = "off"
             /\ (tpc[p] = "sleep" /\ progress_stop[p] /\ tpc'[p] # "sleep")
                => (tpc'[p] = "off" /\ file_events' = file_events)
             /\ (progress_stop[p] /\ ProgressEmits(p)) => fpc[p] = "join"]_vars

\* A job whose progress task emitted reached "completed" as its last event.
C39_Witness ==
    /\ Len(file_events) >= 4
    /\ file_events[Len(file_events)] = FileStatus("completed", 100)
    /\ file_events[Len(file_events) - 1].status = "transcribing"
    /\ file_events[Len(file_events) - 1].progress > 0
    /\ \A p \in FileProcs : tpc[p] = "off"

\* ---- C40 ----
\* Some cache holds an instance that was loaded from the directory of id.
CachedFrom(parakeet, whisper, id) ==
    \/ parakeet # None /\ Head(parakeet).id = id
    \/ whisper # None /\ Head(whisper).id = id

\* C40: a delete_model(id) for a catalog id that returns Ok leaves model_ready(id)
\* false and no cache holding an instance loaded from id, and its unload leaves
\* an engine-B instance loaded from another id cached; a delete_model of an id
\* that is not in the catalog returns "Unknown model" and changes neither the
\* caches nor the disk.
C40_DeleteLeavesNothing ==
    [][\A p \in EngProcs :
          /\ (epc[p] = "remove" /\ epc'[p] = "idle" /\ eact'.ret = "Ok")
             => /\ ~model_ready(eid[p], disk')
                /\ ~CachedFrom(PARAKEET_MODEL', WHISPER_CTX', eid[p])
          /\ (epc[p] = "unload" /\ epc'[p] = "remove"
                /\ WHISPER_CTX # None /\ Head(WHISPER_CTX).id # eid[p])
             => WHISPER_CTX' = WHISPER_CTX
          /\ (epc[p] = "idle" /\ eact' # eact /\ eact'.proc = p /\ eact'.op = "delete"
                /\ find_model(eact'.id) = None)
             => /\ eact'.ret = "Unknown model"
                /\ epc'[p] = "idle"
                /\ UNCHANGED <<PARAKEET_MODEL, WHISPER_CTX, disk>>]_vars

====
